---- MODULE Spec2Model ----
(***************************************************************************)
(* The QQL semantic validator of aio (src/src/db/validate): the model     *)
(* pass, the query pass, and the project walk of validate_database over   *)
(* the files of the database directory, with the model registry of        *)
(* db::Context as shared state.                                            *)
(***************************************************************************)
EXTENDS Integers, Sequences, FiniteSets, TLC

(***************************************************************************)
(* Bounds of the checked inputs.                                           *)
(***************************************************************************)
MaxFiles == 2
MaxFields == 2
MaxArgs == 2
MaxSelectors == 2

(***************************************************************************)
(* Option<T>, identifiers, hash collections.                               *)
(***************************************************************************)
None == [some |-> FALSE]
Some(x) == [some |-> TRUE, val |-> x]

\* An identifier: its text and the source position it was parsed at.
Id(v, s) == [value |-> v, span |-> s]

\* Identifiers compared as whole values, text and position.
IdentEq_with_span(a, b) == a = b

\* Ident equality and hashing look at the text only.
IdentEq(a, b) == a.value = b.value

\* Ident as a &str (AsRef<str>, Borrow<str>).
Ident_as_str(i) == i.value

\* HashSet<Ident>: a set of identifiers holding one identifier per text.
HashSet_contains(set, x) == \E e \in set : IdentEq(e, x)
HashSet_insert(set, x) == IF HashSet_contains(set, x) THEN set ELSE set \cup {x}

\* HashMap<Ident, V>: a set of entries [k, v] holding one entry per key text.
HashMap_contains(map, key) == \E e \in map : IdentEq(e.k, key)
HashMap_get(map, key) ==
    IF HashMap_contains(map, key)
    THEN Some((CHOOSE e \in map : IdentEq(e.k, key)).v)
    ELSE None
\* Variant of insert: a key already stored keeps its value.
HashMap_insert_keep_first(map, key, val) ==
    IF HashMap_contains(map, key) THEN map ELSE map \cup {[k |-> key, v |-> val]}

\* insert keeps the key already stored and replaces the value.
HashMap_insert(map, key, val) ==
    IF HashMap_contains(map, key)
    THEN LET old == CHOOSE e \in map : IdentEq(e.k, key)
         IN  (map \ {old}) \cup {[k |-> old.k, v |-> val]}
    ELSE map \cup {[k |-> key, v |-> val]}
HashMap_values(map) == {e.v : e \in map}
HashMap_keys(map) == {e.k.value : e \in map}

(***************************************************************************)
(* ValidationError                                                         *)
(***************************************************************************)
Ok == [kind |-> "Ok"]
DuplicateField(m, f) == [kind |-> "DuplicateField", model |-> m, field |-> f]
UnknownFieldType(m, f, t) ==
    [kind |-> "UnknownFieldType", model |-> m, field |-> f, type_name |-> t]
DuplicateQueryArgument(q, a) ==
    [kind |-> "DuplicateQueryArgument", query |-> q, argument |-> a]
UnknownQueryVariable(q, v) ==
    [kind |-> "UnknownQueryVariable", query |-> q, variable |-> v]
AmbiguousQueryField(q, f) ==
    [kind |-> "AmbiguousQueryField", query |-> q, field |-> f]
QueryUnknownModel(q, m, f) ==
    [kind |-> "QueryUnknownModel", query |-> q, model |-> m, field |-> f]
QueryUnknownField(q, m, f) ==
    [kind |-> "QueryUnknownField", query |-> q, model |-> m, field |-> f]

(***************************************************************************)
(* TypeStore                                                               *)
(***************************************************************************)
TypeStore_default ==
    [n \in {"UUID", "String", "DateTime", "Encrypted"} |->
        CASE n = "UUID" -> "UuidType"
          [] n = "String" -> "StringType"
          [] n = "DateTime" -> "DateTimeType"
          [] n = "Encrypted" -> "EncryptedType"]

\* Variant of TypeStore_get: the lookup ignores the case of the name.
UpperName(text) == IF text = "uuid" THEN "UUID" ELSE text
TypeStore_get_nocase(type_store, name) ==
    IF UpperName(Ident_as_str(name)) \in DOMAIN type_store
    THEN Some(type_store[UpperName(Ident_as_str(name))])
    ELSE None

TypeStore_get(type_store, name) ==
    IF Ident_as_str(name) \in DOMAIN type_store
    THEN Some(type_store[Ident_as_str(name)])
    ELSE None

(***************************************************************************)
(* model::validate                                                         *)
(***************************************************************************)
\* Ok carries the validated ModelField in val.
validate_field(type_store, model, field) ==
    LET type_ == TypeStore_get(type_store, field.type_.name)
    IN  IF ~type_.some
        THEN UnknownFieldType(model.name, field.name, field.type_.name)
        ELSE [kind |-> "Ok",
              val |-> [name |-> field.name,
                       repr |-> type_.val,
                       optional |-> field.type_.optional,
                       arg |-> field.type_.arg]]

\* Variant of model_validate_fields: the type is looked up before the name
\* is checked against the names seen.
RECURSIVE model_validate_fields_type_first(_, _, _, _, _)
model_validate_fields_type_first(type_store, model, i, field_names, new_fields) ==
    IF i > Len(model.fields)
    THEN [kind |-> "Ok", val |-> new_fields]
    ELSE LET field == model.fields[i]
             f == validate_field(type_store, model, field)
         IN  IF f.kind # "Ok"
             THEN f
             ELSE IF HashSet_contains(field_names, field.name)
             THEN DuplicateField(model.name, field.name)
             ELSE model_validate_fields_type_first(
                      type_store, model, i + 1,
                      HashSet_insert(field_names, field.name),
                      Append(new_fields, f.val))

\* The loop over model.fields from field i on: an error, or Ok with the
\* validated fields.
RECURSIVE model_validate_fields(_, _, _, _, _)
model_validate_fields(type_store, model, i, field_names, new_fields) ==
    IF i > Len(model.fields)
    THEN [kind |-> "Ok", val |-> new_fields]
    ELSE LET field == model.fields[i]
         IN  IF HashSet_contains(field_names, field.name)
             THEN DuplicateField(model.name, field.name)
             ELSE LET f == validate_field(type_store, model, field)
                  IN  IF f.kind # "Ok"
                      THEN f
                      ELSE model_validate_fields(
                               type_store, model, i + 1,
                               HashSet_insert(field_names, field.name),
                               Append(new_fields, f.val))

\* Variant of model_install: an entry of the same name is kept.
model_install_keep_first(registry, model, new_fields) ==
    IF HashMap_contains(registry, model.name)
    THEN registry
    ELSE HashMap_insert(registry, model.name,
                        [name |-> model.name, fields |-> new_fields])

\* Variant of model_install: the registry is rebuilt around the new model.
model_install_fresh(registry, model, new_fields) ==
    HashMap_insert({}, model.name,
                   [name |-> model.name, fields |-> new_fields])

\* The registry after a successful validation.
model_install(registry, model, new_fields) ==
    HashMap_insert(registry, model.name,
                   [name |-> model.name, fields |-> new_fields])

\* [res, models]: the result and the registry after the call.
model_validate(type_store, registry, model) ==
    LET r == model_validate_fields(type_store, model, 1, {}, <<>>)
    IN  IF r.kind # "Ok"
        THEN [res |-> r, models |-> registry]
        ELSE [res |-> Ok, models |-> model_install(registry, model, r.val)]

(***************************************************************************)
(* query::validate                                                         *)
(***************************************************************************)
has_field(model, field) ==
    \E i \in DOMAIN model.fields :
        Ident_as_str(model.fields[i].name) = Ident_as_str(field)

\* The argument loop from argument i on: the first duplicate, or Ok with the
\* argument set.
RECURSIVE query_args(_, _, _)
query_args(query, i, args) ==
    IF i > Len(query.args)
    THEN [kind |-> "Ok", val |-> args]
    ELSE LET arg == query.args[i]
         IN  IF HashSet_contains(args, arg)
             THEN DuplicateQueryArgument(query.name, arg)
             ELSE query_args(query, i + 1, HashSet_insert(args, arg))

principal_model(query) ==
    IF Len(query.statement.selectors) = 1
    THEN Some(query.statement.selectors[1].name)
    ELSE None

\* Variant of resolve_field: the two errors are exchanged.
resolve_field_errors_swapped(registry, query, model, field) ==
    LET found == HashMap_get(registry, model)
    IN  IF found.some
        THEN IF ~has_field(found.val, field)
             THEN QueryUnknownModel(query.name, found.val.name, field)
             ELSE Ok
        ELSE QueryUnknownField(query.name, model, field)

\* Resolution of a field reference against the model named by an identifier.
resolve_field(registry, query, model, field) ==
    LET found == HashMap_get(registry, model)
    IN  IF found.some
        THEN IF ~has_field(found.val, field)
             THEN QueryUnknownField(query.name, found.val.name, field)
             ELSE Ok
        ELSE QueryUnknownModel(query.name, model, field)

\* Variant of field_target: the principal model is taken when there is one.
field_target_principal_first(principal, model) ==
    IF principal.some THEN principal ELSE model

\* The model a Field node is resolved against: the match
\* (&self.principal_model, model) takes the qualifier when there is one.
field_target(principal, model) ==
    IF model.some THEN model ELSE principal

\* ctx is the QueryContext: [registry, query, args, principal_model].
RECURSIVE validate_expr(_, _)
validate_expr(ctx, expr) ==
    CASE expr.tag = "Binary" ->
            LET l == validate_expr(ctx, expr.l)
            IN  IF l.kind # "Ok" THEN l ELSE validate_expr(ctx, expr.r)
      [] expr.tag = "Unary" -> validate_expr(ctx, expr.r)
      [] expr.tag = "Number" -> Ok
      [] expr.tag = "Interp" ->
            IF ~HashSet_contains(ctx.args, expr.var)
            THEN UnknownQueryVariable(ctx.query.name, expr.var)
            ELSE Ok
      [] expr.tag = "Field" ->
            LET target == field_target(ctx.principal_model, expr.model)
            IN  IF target.some
                THEN resolve_field(ctx.registry, ctx.query, target.val, expr.field)
                ELSE AmbiguousQueryField(ctx.query.name, expr.field)

validate_quantifier(ctx, quantifier) ==
    IF quantifier.tag = "Expr"
    THEN validate_expr(ctx, quantifier.expr)
    ELSE Ok

\* The expressions of a statement that validate walks.
query_walk(ctx, statement) ==
    validate_quantifier(ctx, statement.quantifier)

QueryContext(registry, query, args) ==
    [registry |-> registry, query |-> query, args |-> args,
     principal_model |-> principal_model(query)]

\* Variant of query_validate: the expressions are validated before the
\* arguments are checked for duplicates.
query_validate_walk_first(registry, query) ==
    LET all == {query.args[i] : i \in DOMAIN query.args}
        w == query_walk(QueryContext(registry, query, all), query.statement)
    IN  IF w.kind # "Ok" THEN w ELSE query_args(query, 1, {})

query_validate(registry, query) ==
    LET a == query_args(query, 1, {})
    IN  IF a.kind # "Ok"
        THEN a
        ELSE query_walk(QueryContext(registry, query, a.val), query.statement)

(***************************************************************************)
(* validate_file over every order HashMap::values() can yield              *)
(***************************************************************************)
\* file.models.values().try_for_each(model::validate): the [res, models]
\* pairs the walk can end with, one per visiting order.
RECURSIVE models_outcomes(_, _)
models_outcomes(todo, registry) ==
    IF todo = {}
    THEN {[res |-> Ok, models |-> registry]}
    ELSE UNION { LET r == model_validate(TypeStore_default, registry, m)
                 IN  IF r.res.kind = "Ok"
                     THEN models_outcomes(todo \ {m}, r.models)
                     ELSE {[res |-> r.res, models |-> r.models]}
                 : m \in todo }

\* file.queries.values().try_for_each(query::validate).
RECURSIVE queries_outcomes(_, _)
queries_outcomes(todo, registry) ==
    IF todo = {}
    THEN {[res |-> Ok, models |-> registry]}
    ELSE UNION { LET r == query_validate(registry, q)
                 IN  IF r.kind = "Ok"
                     THEN queries_outcomes(todo \ {q}, registry)
                     ELSE {[res |-> r, models |-> registry]}
                 : q \in todo }

validate_file_outcomes(file_models, file_queries, registry) ==
    UNION { IF o.res.kind = "Ok"
            THEN queries_outcomes(file_queries, o.models)
            ELSE {o}
            : o \in models_outcomes(file_models, registry) }

(***************************************************************************)
(* The parsed inputs: models, queries, files and database directories.     *)
(***************************************************************************)
ModelNames == {"User", "Post"}
FieldNames == {"id", "name"}
ArgNames == {"a", "b"}

\* Field types as written: name, optional (arg), optional '?'.
FieldTypes ==
    { [name |-> "UUID", arg |-> None, optional |-> FALSE],
      [name |-> "Encrypted", arg |-> Some(8), optional |-> TRUE],
      [name |-> "uuid", arg |-> None, optional |-> TRUE],
      [name |-> "Bogus", arg |-> Some(8), optional |-> FALSE] }

SeqsUpTo(S, n) == UNION {[1..k -> S] : k \in 0..n}

\* A parsed model: every identifier carries the position it was read at.
MkModel(name, raw) ==
    [name |-> Id(name, 0),
     fields |-> [i \in DOMAIN raw |->
        [name |-> Id(raw[i][1], i),
         type_ |-> [name |-> Id(raw[i][2].name, 10 + i),
                    arg |-> raw[i][2].arg,
                    optional |-> raw[i][2].optional]]]]

Models ==
    {MkModel(n, raw) : n \in ModelNames,
                       raw \in SeqsUpTo(FieldNames \X FieldTypes, MaxFields)}

ENumber == [tag |-> "Number", n |-> 5]
EInterp(v) == [tag |-> "Interp", var |-> Id(v, 42)]
EField(m, f) == [tag |-> "Field", model |-> m, field |-> Id(f, 41)]
EUnary(e) == [tag |-> "Unary", op |-> "Negative", r |-> e]
EBinary(l, r) == [tag |-> "Binary", l |-> l, op |-> "Eq", r |-> r]

\* The references to an argument or a field, and the expressions over them.
Leaves ==
    {EInterp("a"), EField(None, "id"), EField(Some(Id("User", 40)), "id")}
Exprs ==
    {ENumber} \cup Leaves
        \cup {EUnary(e) : e \in Leaves}
        \cup {EBinary(l, r) : l \in {ENumber, EInterp("a")}, r \in Leaves}

QOne == [tag |-> "One"]
QNumber == [tag |-> "Number", n |-> 3]
QExpr(e) == [tag |-> "Expr", expr |-> e]
\* parse_qql_quantifier reaches the expression alternative only when the
\* input starts with neither an identifier nor a digit: the expression
\* starts with '-' or with '#'.
RECURSIVE quantifier_expr_start(_)
quantifier_expr_start(e) ==
    CASE e.tag = "Interp" -> TRUE
      [] e.tag = "Unary" -> e.op = "Negative"
      [] e.tag = "Binary" -> quantifier_expr_start(e.l)
      [] OTHER -> FALSE
Quantifiers ==
    {QOne, QNumber} \cup {QExpr(e) : e \in {x \in Exprs : quantifier_expr_start(x)}}
WhereClauses == {None} \cup {Some([expr |-> e]) : e \in Exprs}

MkQuery(name, args, sels, quantifier, where) ==
    [name |-> Id(name, 0),
     args |-> [i \in DOMAIN args |-> Id(args[i], i)],
     statement |->
        [action |-> "Select",
         quantifier |-> quantifier,
         selectors |-> [i \in DOMAIN sels |->
                          [name |-> Id(sels[i], 20 + i), fields |-> <<Id("id", 30 + i)>>]],
         where_clause |-> where]]

\* parse_separated reads at least one selector.
SelectorLists == SeqsUpTo(ModelNames, MaxSelectors) \ {<<>>}

Queries ==
    {MkQuery("Q", a, s, qt, w) : a \in SeqsUpTo(ArgNames, MaxArgs),
                                  s \in SelectorLists,
                                  qt \in Quantifiers, w \in WhereClauses}

\* Directory entries: a subdirectory, a file that does not parse, a parsed file.
DirEntry == [kind |-> "dir"]
BadFile == [kind |-> "file", parsed |-> [ok |-> FALSE]]
MkFile(ms, qs) ==
    [kind |-> "file", parsed |-> [ok |-> TRUE, models |-> ms, queries |-> qs]]

\* QQLFile keeps one declaration per name.
UniqueNames(S) == \A x \in S, y \in S : IdentEq(x.name, y.name) => x = y

\* Small declarations, for directories of several files with several
\* declarations each.
SmallModels ==
    { MkModel("User", <<<<"id", [name |-> "UUID", arg |-> None, optional |-> FALSE]>>>>),
      MkModel("User", <<<<"id", [name |-> "Bogus", arg |-> None, optional |-> FALSE]>>>>),
      MkModel("Post", <<<<"id", [name |-> "UUID", arg |-> None, optional |-> FALSE]>>>>),
      MkModel("Post", <<<<"name", [name |-> "UUID", arg |-> None, optional |-> FALSE]>>>>) }
SmallQueries ==
    { MkQuery("Q", <<>>, <<"User">>, QOne, None),
      MkQuery("Q", <<>>, <<"User">>, QExpr(EUnary(EField(Some(Id("Post", 40)), "id"))), None),
      MkQuery("R", <<>>, <<"User">>, QExpr(EUnary(EField(None, "id"))), None),
      MkQuery("R", <<"b">>, <<"User", "Post">>, QExpr(EInterp("a")), None) }
\* Files of no declaration, of one, and of two: two models, two queries, or
\* a model and a query.
SmallFiles ==
    {MkFile({}, {})}
        \cup {MkFile({m}, {}) : m \in SmallModels}
        \cup {MkFile({}, {q}) : q \in SmallQueries}
        \cup {MkFile({m}, {q}) : m \in SmallModels, q \in SmallQueries}
        \cup {MkFile(ms, {}) : ms \in {{a, b} : a \in SmallModels, b \in SmallModels}
                                      \cap {S \in SUBSET SmallModels : UniqueNames(S)}}
        \cup {MkFile({}, qs) : qs \in {{a, b} : a \in SmallQueries, b \in SmallQueries}
                                      \cap {S \in SUBSET SmallQueries : UniqueNames(S)}}

\* Files of one model, and files of one query over at most one model.
ModelFiles == {MkFile({m}, {}) : m \in Models}
RegistryModels ==
    { MkModel("User", <<<<"id", [name |-> "UUID", arg |-> None, optional |-> FALSE]>>>>),
      MkModel("User", <<<<"name", [name |-> "UUID", arg |-> None, optional |-> FALSE]>>>>) }
QueryFiles ==
    {MkFile(ms, {q}) : ms \in {{}} \cup {{m} : m \in RegistryModels}, q \in Queries}

RECURSIVE SetsUpTo(_, _)
SetsUpTo(S, n) ==
    IF n = 0 THEN {{}}
    ELSE LET P == SetsUpTo(S, n - 1) IN P \cup {T \cup {x} : T \in P, x \in S}

Directories ==
    SetsUpTo(SmallFiles \cup {DirEntry, BadFile}, MaxFiles)
        \cup {{f} : f \in ModelFiles}
        \cup {{f} : f \in QueryFiles}

(***************************************************************************)
(* config: values, evaluation errors, the function registry.               *)
(***************************************************************************)
MaxCallArgs == 3
MaxNestedArgs == 2

VString(s) == [tag |-> "String", s |-> s]
VInt(n) == [tag |-> "Int", n |-> n]
VPath(p) == [tag |-> "Path", p |-> p]
VGroup(g) == [tag |-> "Group", g |-> g]
VFunction(name, args) == [tag |-> "Function", name |-> name, args |-> args]

OkValue(v) == [kind |-> "Ok", val |-> v]
ExpectedValue(key, type_) == [kind |-> "ExpectedValue", key |-> key, type_ |-> type_]
UnknownFunction(name) == [kind |-> "UnknownFunction", name |-> name]
ArgumentIssue(function, found) ==
    [kind |-> "ArgumentIssue", function |-> function, found |-> found]
ArgumentTypeIssue(function, argument, type_) ==
    [kind |-> "ArgumentTypeIssue", function |-> function,
     argument |-> argument, type_ |-> type_]
EvaluationError(function, message) ==
    [kind |-> "EvaluationError", function |-> function, message |-> message]
\* Option::unwrap on None: the thread panics.
Panic == [kind |-> "Panic"]

\* Context.functions: a map from the registered names to their handlers.
Context_empty == <<>>

\* add_function over an entry of that name: the entry is overwritten.
add_function_overwrite(functions, name, func) ==
    [res |-> Ok,
     functions |-> [n \in DOMAIN functions \cup {name} |->
                        IF n = name THEN func ELSE functions[n]]]

add_function(functions, name, func) ==
    IF name \in DOMAIN functions
    THEN [res |-> [kind |-> "AlreadyExists", name |-> name], functions |-> functions]
    ELSE [res |-> Ok,
          functions |-> [n \in DOMAIN functions \cup {name} |->
                            IF n = name THEN func ELSE functions[n]]]

\* build_context, on Context::empty().
Context_default == add_function(Context_empty, "Env", "EnvFunction").functions

(***************************************************************************)
(* config: the handlers.  The process environment maps a variable name to  *)
(* what std::env::var gives for it.                                        *)
(***************************************************************************)
VarOk(v) == [kind |-> "Ok", val |-> v]
NotPresent == [kind |-> "NotPresent"]
NotUnicode == [kind |-> "NotUnicode"]
env_var(env, key) == IF key \in DOMAIN env THEN env[key] ELSE NotPresent

DESCRIPTOR == "Env(key, [default-value])"

\* EnvFunction::call with the type of the key looked at before the number
\* of arguments.
EnvFunction_call_type_first(env, args) ==
    IF Len(args) >= 1 /\ args[1].tag # "String"
    THEN ArgumentTypeIssue(DESCRIPTOR, "key", "string")
    ELSE IF Len(args) \notin {1, 2} THEN ArgumentIssue(DESCRIPTOR, Len(args))
    ELSE LET v == env_var(env, args[1].s)
         IN  CASE v.kind = "Ok" -> OkValue(VString(v.val))
               [] v.kind = "NotPresent" /\ Len(args) = 2 -> OkValue(args[2])
               [] OTHER -> EvaluationError(DESCRIPTOR, v.kind)

\* EnvFunction::call with the default returned on every failed lookup.
EnvFunction_call_default_on_error(env, args) ==
    IF Len(args) \notin {1, 2} THEN ArgumentIssue(DESCRIPTOR, Len(args))
    ELSE IF args[1].tag # "String"
         THEN ArgumentTypeIssue(DESCRIPTOR, "key", "string")
    ELSE LET v == env_var(env, args[1].s)
         IN  CASE v.kind = "Ok" -> OkValue(VString(v.val))
               [] Len(args) = 2 -> OkValue(args[2])
               [] OTHER -> EvaluationError(DESCRIPTOR, v.kind)

EnvFunction_call(env, args) ==
    IF Len(args) \notin {1, 2} THEN ArgumentIssue(DESCRIPTOR, Len(args))
    ELSE LET key == args[1]
             default_value == IF Len(args) = 2 THEN Some(args[2]) ELSE None
         IN  IF key.tag # "String"
             THEN ArgumentTypeIssue(DESCRIPTOR, "key", "string")
             ELSE LET v == env_var(env, key.s)
                  IN  CASE v.kind = "Ok" -> OkValue(VString(v.val))
                        [] v.kind = "NotPresent" /\ default_value.some ->
                              OkValue(default_value.val)
                        [] OTHER -> EvaluationError(DESCRIPTOR, v.kind)

\* A handler of the host: it returns a call of Env on the arguments it was
\* given, a Function value.
AliasFunction_call(args) == OkValue(VFunction(Id("Env", 50), args))

\* Function::call, dispatched on the registered handler.
Function_call(handler, env, args) ==
    CASE handler = "EnvFunction" -> EnvFunction_call(env, args)
      [] handler = "AliasFunction" -> AliasFunction_call(args)

(***************************************************************************)
(* config: fn eval.  The result comes with the handler calls made, in      *)
(* order: handler, the arguments it received, what it returned.            *)
(***************************************************************************)
RECURSIVE eval_raw_args(_, _, _)
RECURSIVE eval(_, _, _)
RECURSIVE eval_args(_, _, _, _, _, _)

\* function.args.iter().map(..).collect::<Result<Vec<_>, _>>()?: the
\* arguments left to right, stopping at the first error.
eval_args(args, i, functions, env, done, calls) ==
    IF i > Len(args) THEN [res |-> Ok, args |-> done, calls |-> calls]
    ELSE IF args[i].tag = "Function"
         THEN LET r == eval(args[i], functions, env)
              IN  IF r.res.kind = "Ok"
                  THEN eval_args(args, i + 1, functions, env,
                                 Append(done, r.res.val), calls \o r.calls)
                  ELSE [res |-> r.res, args |-> done, calls |-> calls \o r.calls]
         ELSE eval_args(args, i + 1, functions, env, Append(done, args[i]), calls)

\* eval with the arguments handed to the handler as they are written.
eval_raw_args(function, functions, env) ==
    IF Ident_as_str(function.name) \notin DOMAIN functions
    THEN [res |-> UnknownFunction(function.name), calls |-> <<>>]
    ELSE LET handler == functions[Ident_as_str(function.name)]
             value == Function_call(handler, env, function.args)
             calls == <<[handler |-> handler, args |-> function.args, ret |-> value]>>
         IN  IF value.kind = "Ok" /\ value.val.tag = "Function"
             THEN LET again == eval(value.val, functions, env)
                  IN  [res |-> again.res, calls |-> calls \o again.calls]
             ELSE [res |-> value, calls |-> calls]

eval(function, functions, env) ==
    IF Ident_as_str(function.name) \notin DOMAIN functions
    THEN [res |-> UnknownFunction(function.name), calls |-> <<>>]
    ELSE LET handler == functions[Ident_as_str(function.name)]
             a == eval_args(function.args, 1, functions, env, <<>>, <<>>)
         IN  IF a.res.kind # "Ok" THEN [res |-> a.res, calls |-> a.calls]
             ELSE LET value == Function_call(handler, env, a.args)
                      calls == Append(a.calls,
                                      [handler |-> handler, args |-> a.args, ret |-> value])
                  IN  IF value.kind = "Ok" /\ value.val.tag = "Function"
                      THEN LET again == eval(value.val, functions, env)
                           IN  [res |-> again.res, calls |-> calls \o again.calls]
                      ELSE [res |-> value, calls |-> calls]

(***************************************************************************)
(* config: Group.  context is the Weak<Context> of the group: "new" is     *)
(* Weak::new(), which never upgrades; "session" is a downgrade of the      *)
(* parse session's Rc<Context>, which upgrades while that Rc is held.      *)
(***************************************************************************)
Group(context, inner) == [context |-> context, inner |-> inner]
Group_default == Group("new", {})

Weak_upgrade(context, alive) == context = "session" /\ alive

Group_get_raw(group, key) == HashMap_get(group.inner, [value |-> key])

Group_eval(group, key, alive, functions, env) ==
    LET value == Group_get_raw(group, key)
    IN  IF ~value.some
        THEN [res |-> ExpectedValue(key, "value"), calls |-> <<>>]
        ELSE IF ~Weak_upgrade(group.context, alive)
        THEN [res |-> Panic, calls |-> <<>>]
        ELSE IF value.val.tag = "Function"
        THEN eval(value.val, functions, env)
        ELSE [res |-> OkValue(value.val), calls |-> <<>>]

\* get_string, get_int::<i64> and get_path: eval, then the variant wanted.
Group_get_typed(group, key, tag, alive, functions, env) ==
    LET r == Group_eval(group, key, alive, functions, env)
    IN  IF r.res.kind # "Ok" THEN r
        ELSE IF r.res.val.tag = tag THEN r
        ELSE [res |-> ExpectedValue(key, "string"), calls |-> r.calls]

\* get_group: the raw value, never evaluated.
Group_get_group(group, key) ==
    LET value == Group_get_raw(group, key)
    IN  IF value.some /\ value.val.tag = "Group" THEN OkValue(value.val)
        ELSE ExpectedValue(key, "group")

\* Config::from_directory on a project file `<key> <value> database {
\* <key> <value> }`: the implicit top-level group is Group::default(), the
\* braced group is parse_group's.
Config_from_directory(value) ==
    LET database == Group("session", HashMap_insert({}, Id("path", 3), value))
        out0 == Group_default
        out1 == [out0 EXCEPT !.inner = HashMap_insert(@, Id("name", 0), value)]
        out2 == [out1 EXCEPT !.inner = HashMap_insert(@, Id("database", 2), VGroup(database))]
    IN  [inner |-> out2, by |-> "from_directory"]

\* ConfigParser::new(context, source).parse_group() of the host, on
\* `{ <key> <value> database { <key> <value> } }`.
ConfigParser_parse_group(value) ==
    LET database == Group("session", HashMap_insert({}, Id("path", 3), value))
        out1 == Group("session", HashMap_insert({}, Id("name", 1), value))
        out2 == [out1 EXCEPT !.inner = HashMap_insert(@, Id("database", 2), VGroup(database))]
    IN  [inner |-> out2, by |-> "parse_group"]

(***************************************************************************)
(* config: the values a project file holds.                                *)
(***************************************************************************)
FunctionNames == {"Env", "Alias", "Nope"}
EnvStates == {VarOk("bar"), NotPresent, NotUnicode}
Atoms == {VString("FOO"), VInt(7)}
\* Calls written as arguments of a call.
InnerCalls ==
    { VFunction(Id("Env", 60), <<VString("FOO")>>),
      VFunction(Id("Nope", 60), <<>>) }
\* Argument lists: of plain values up to MaxCallArgs, with calls among them
\* up to MaxNestedArgs.
CallArgs ==
    SeqsUpTo(Atoms, MaxCallArgs) \cup SeqsUpTo(Atoms \cup InnerCalls, MaxNestedArgs)
\* Nope is registered by nobody: its calls take no argument or one.
ConfigValues ==
    Atoms \cup {VPath("/db")}
          \cup {VFunction(Id(n, 5), args) : n \in FunctionNames \ {"Nope"}, args \in CallArgs}
          \cup {VFunction(Id("Nope", 5), <<>>)}
          \cup {VFunction(Id("Nope", 5), <<a>>) : a \in Atoms \cup InnerCalls}
\* The handlers add_function is called with, under the names it is called
\* with.  AliasFunction returns a call of Env, so it is not registered as Env.
Registrations == {<<"Env", "EnvFunction">>, <<"Alias", "AliasFunction">>,
                  <<"Alias", "EnvFunction">>}
\* The groups of a Config and the keys they are asked for.
Lookups == {<<"top", "name">>, <<"top", "missing">>, <<"database", "path">>}
Getters == {"eval", "get_string"}

(***************************************************************************)
(* Literal parsers.  A source is a sequence of characters, each one its    *)
(* code point; the cursor is the number of characters consumed.  The       *)
(* sources hold no whitespace, so the whitespace hook never moves it.      *)
(***************************************************************************)
MaxPieces == 4
MaxLiteral == 3

\* The code point of a character.
Ord(c) ==
    CASE c = " " -> 32 [] c = "!" -> 33 [] c = "\"" -> 34 [] c = "#" -> 35
      [] c = "%" -> 37 [] c = "'" -> 39 [] c = "(" -> 40 [] c = ")" -> 41
      [] c = "*" -> 42 [] c = "+" -> 43 [] c = "," -> 44 [] c = "-" -> 45
      [] c = "." -> 46 [] c = "/" -> 47
      [] c = "0" -> 48 [] c = "1" -> 49 [] c = "2" -> 50 [] c = "3" -> 51
      [] c = "4" -> 52 [] c = "5" -> 53 [] c = "6" -> 54 [] c = "7" -> 55
      [] c = "8" -> 56 [] c = "9" -> 57
      [] c = ":" -> 58 [] c = "<" -> 60 [] c = "=" -> 61 [] c = ">" -> 62
      [] c = "?" -> 63 [] c = "p" -> 112
      [] c = "A" -> 65 [] c = "D" -> 68 [] c = "E" -> 69 [] c = "N" -> 78
      [] c = "O" -> 79 [] c = "T" -> 84
      [] c = "R" -> 82 [] c = "U" -> 85
      [] c = "\\" -> 92 [] c = "_" -> 95
      [] c = "a" -> 97 [] c = "b" -> 98 [] c = "c" -> 99 [] c = "d" -> 100
      [] c = "e" -> 101 [] c = "h" -> 104 [] c = "i" -> 105 [] c = "l" -> 108
      [] c = "m" -> 109 [] c = "n" -> 110 [] c = "o" -> 111 [] c = "q" -> 113
      [] c = "r" -> 114 [] c = "s" -> 115 [] c = "t" -> 116 [] c = "u" -> 117
      [] c = "w" -> 119 [] c = "x" -> 120 [] c = "y" -> 121
      [] c = "{" -> 123 [] c = "}" -> 125
Chars(s) == [i \in DOMAIN s |-> Ord(s[i])]

\* Parser::at_end, Parser::peek(char), Parser::remaining.
at_end(src, index) == index >= Len(src)
peek(src, index, c) == index < Len(src) /\ src[index + 1] = c
remaining(src, index) == SubSeq(src, index + 1, Len(src))
\* source[from..to], a half-open range of indices.
Slice(src, from, to) == SubSeq(src, from + 1, to)

ParseOk(val, index) == [kind |-> "Ok", val |-> val, index |-> index]
\* A hard error; atomic leaves the cursor where the parser started.
ParseErr(index) == [kind |-> "Err", index |-> index]

is_ascii_digit(c) == c \in 48..57
\* char::to_digit(16), -1 for a character that is no hex digit.
to_digit16(c) ==
    IF c \in 48..57 THEN c - 48
    ELSE IF c \in 65..70 THEN c - 55
    ELSE IF c \in 97..102 THEN c - 87
    ELSE -1

RECURSIVE radix16(_, _, _)
radix16(digits, i, acc) ==
    IF i > Len(digits) THEN acc
    ELSE radix16(digits, i + 1, acc * 16 + to_digit16(digits[i]))

\* u32::from_str_radix(s, 16): one leading '+' is accepted, then at least
\* one digit and digits only.
u32_from_str_radix16(s) ==
    LET digits == IF Len(s) > 0 /\ s[1] = 43 THEN Tail(s) ELSE s
    IN  IF Len(digits) = 0 \/ \E i \in DOMAIN digits : to_digit16(digits[i]) < 0
        THEN None
        ELSE Some(radix16(digits, 1, 0))

\* char::from_u32: surrogates are no characters.
char_from_u32(code) == IF code \in 55296..57343 THEN None ELSE Some(code)

\* The character an escape stands for, other than \u.
Escaped(c) ==
    CASE c = 110 -> Some(10)
      [] c = 114 -> Some(13)
      [] c = 116 -> Some(9)
      [] c = 92 -> Some(92)
      [] c = 39 -> Some(39)
      [] c = 34 -> Some(34)
      [] OTHER -> None

\* parse_string, from the loop on: the cursor is at index, the literal's
\* content begins at start, content holds what the escapes so far made.
RECURSIVE string_loop(_, _, _, _, _, _)
string_loop(src, string_type, start, index, previous_content_index, content) ==
    IF ~at_end(src, index) /\ ~peek(src, index, string_type)
    THEN IF src[index + 1] # 92
         THEN string_loop(src, string_type, start, index + 1,
                          previous_content_index, content)
         ELSE LET filled == (IF content.some THEN content.val ELSE <<>>)
                                \o Slice(src, previous_content_index, index)
                  location == index + 2
              IN  IF at_end(src, index + 1) THEN ParseErr(0)
                  ELSE LET escaped_char == src[index + 2]
                       IN  IF escaped_char = 117
                           THEN IF Len(remaining(src, location)) < 4 THEN ParseErr(0)
                                ELSE LET hex_digits == SubSeq(remaining(src, location), 1, 4)
                                         code == u32_from_str_radix16(hex_digits)
                                     IN  IF ~code.some THEN ParseErr(0)
                                         ELSE IF ~char_from_u32(code.val).some
                                         THEN ParseErr(0)
                                         ELSE string_loop(src, string_type, start, location,
                                                  location,
                                                  Some(Append(filled, char_from_u32(code.val).val)))
                           ELSE IF Escaped(escaped_char).some
                           THEN string_loop(src, string_type, start, location, location,
                                    Some(Append(filled, Escaped(escaped_char).val)))
                           ELSE ParseErr(0)
    ELSE IF ~peek(src, index, string_type) THEN ParseErr(0)
    ELSE LET location == index + 1
         IN  ParseOk(Some(IF content.some
                          THEN content.val \o Slice(src, previous_content_index, location)
                          ELSE Slice(src, start, location - 1)),
                     location)

parse_string(src) ==
    IF peek(src, 0, 34) \/ peek(src, 0, 39)
    THEN string_loop(src, src[1], 1, 1, 1, None)
    ELSE ParseOk(None, 0)

\* while parser.take(|c| c.is_ascii_digit() || c == '_') {}
RECURSIVE take_digits(_, _)
take_digits(src, index) ==
    IF index < Len(src) /\ (is_ascii_digit(src[index + 1]) \/ src[index + 1] = 95)
    THEN take_digits(src, index + 1)
    ELSE index

\* A number as its decimal digits, most significant first, no leading zero.
I64_MAX == <<9, 2, 2, 3, 3, 7, 2, 0, 3, 6, 8, 5, 4, 7, 7, 5, 8, 0, 7>>
U64_MAX == <<1, 8, 4, 4, 6, 7, 4, 4, 0, 7, 3, 7, 0, 9, 5, 5, 1, 6, 1, 5>>

RECURSIVE strip_zeros(_)
strip_zeros(d) ==
    IF Len(d) > 1 /\ d[1] = 0 THEN strip_zeros(Tail(d)) ELSE d

RECURSIVE digits_leq(_, _)
digits_leq(a, b) ==
    IF Len(a) # Len(b) THEN Len(a) < Len(b)
    ELSE IF Len(a) = 0 THEN TRUE
    ELSE IF a[1] # b[1] THEN a[1] < b[1]
    ELSE digits_leq(Tail(a), Tail(b))

\* .replace('_', "")
RECURSIVE replace_underscores(_)
replace_underscores(s) ==
    IF s = <<>> THEN <<>>
    ELSE IF s[1] = 95 THEN replace_underscores(Tail(s))
    ELSE <<s[1]>> \o replace_underscores(Tail(s))

\* str::parse of an unsigned run of digits into an integer type of that
\* maximum: no digit at all is an error, and so is a value above max.
str_parse(s, max) ==
    IF s = <<>> \/ \E i \in DOMAIN s : ~is_ascii_digit(s[i]) THEN None
    ELSE LET value == strip_zeros([i \in DOMAIN s |-> s[i] - 48])
         IN  IF digits_leq(value, max) THEN Some(value) ELSE None

\* parse_number with start taken before the first digit.
parse_number_from_first(src) ==
    IF ~(0 < Len(src) /\ is_ascii_digit(src[1])) THEN ParseOk(None, 0)
    ELSE LET end == take_digits(src, 1)
             lex == str_parse(replace_underscores(Slice(src, 0, end)), U64_MAX)
         IN  IF lex.some THEN ParseOk(lex, end) ELSE ParseErr(0)

\* config: parse_int::<i64>
parse_int(src) ==
    LET start == 0
    IN  IF ~(0 < Len(src) /\ is_ascii_digit(src[1])) THEN ParseOk(None, 0)
        ELSE LET end == take_digits(src, 1)
                 lex == str_parse(replace_underscores(Slice(src, start, end)), I64_MAX)
             IN  IF lex.some THEN ParseOk(lex, end) ELSE ParseErr(0)

\* QQL: parse_number::<u64>
parse_number(src) ==
    IF ~(0 < Len(src) /\ is_ascii_digit(src[1])) THEN ParseOk(None, 0)
    ELSE LET start == 1
             end == take_digits(src, start)
             lex == str_parse(replace_underscores(Slice(src, start, end)), U64_MAX)
         IN  IF lex.some THEN ParseOk(lex, end) ELSE ParseErr(0)

(***************************************************************************)
(* The sources the literal parsers are run on.                             *)
(***************************************************************************)
RECURSIVE Flatten(_)
Flatten(ss) == IF ss = <<>> THEN <<>> ELSE ss[1] \o Flatten(Tail(ss))

\* What a string literal is written of: plain characters, the escapes, \u
\* with four hex digits, with a code point that is no character, with too
\* few digits, and an escape that does not exist.
Pieces ==
    { <<"a">>, <<"b">>,
      <<"\\", "n">>, <<"\\", "\"">>,
      <<"\\", "u", "0", "0", "4", "1">>,
      <<"\\", "u", "D", "8", "0", "0">>,
      <<"\\", "u", "1", "2">>,
      <<"\\", "q">> }
Quotes == {"\"", "'"}
\* A literal, closed or not, and text that opens no literal.
StringSources(n) ==
    {Chars(<<q>> \o Flatten(ps) \o (IF closed THEN <<q>> ELSE <<>>)) :
        q \in Quotes, ps \in SeqsUpTo(Pieces, n), closed \in BOOLEAN}
        \cup {Chars(<<"a", "\"">>)}

NumberChars == {"0", "1", "9", "_", "x"}
NumberSources ==
    {Chars(s) : s \in SeqsUpTo(NumberChars, MaxLiteral)}
        \cup {Chars(<<"9","2","2","3","3","7","2","0","3","6","8","5","4","7","7","5","8","0","7">>),
              Chars(<<"9","2","2","3","3","7","2","0","3","6","8","5","4","7","7","5","8","0","8">>),
              Chars(<<"1","8","4","4","6","7","4","4","0","7","3","7","0","9","5","5","1","6","1","5">>),
              Chars(<<"1","8","4","4","6","7","4","4","0","7","3","7","0","9","5","5","1","6","1","6">>),
              Chars(<<"1","1","8","4","4","6","7","4","4","0","7","3","7","0","9","5","5","1","6","1","5">>),
              Chars(<<"1","1","8","4","4","6","7","4","4","0","7","3","7","0","9","5","5","1","6","1","6">>)}

(***************************************************************************)
(* The QQL parser over a cursor.  Parser::take, Parser::peek and            *)
(* Parser::atomic run the whitespace hook before they match; inside atomic  *)
(* the hook is suspended, so the closure reads the characters of one token. *)
(* A take that fails leaves the cursor where it was; atomic commits the     *)
(* position its closure reached on Ok and restores the cursor on Err.       *)
(***************************************************************************)
\* let x = value; body
With(value, Body(_)) == Body(value)
\* let x = value?; body
Try(value, Body(_)) == IF value.kind = "Err" THEN value ELSE Body(value)

\* QQLParser::new: while parser.take(|c| c.is_ascii_whitespace()) {}
RECURSIVE whitespace(_, _)
whitespace(src, index) ==
    IF index < Len(src) /\ src[index + 1] = 32
    THEN whitespace(src, index + 1)
    ELSE index

\* Parser::take of a literal token, a sequence of characters: [ok, index].
take(src, index, token) ==
    LET at == whitespace(src, index)
    IN  IF at + Len(token) <= Len(src) /\ Slice(src, at, at + Len(token)) = token
        THEN [ok |-> TRUE, index |-> at + Len(token)]
        ELSE [ok |-> FALSE, index |-> index]

\* Parser::peek of a literal token.
peek_token(src, index, token) == take(src, index, token).ok

\* A hard error with its message; the cursor is where the parser stopped.
QErr(message, index) == [kind |-> "Err", message |-> message, index |-> index]

is_ascii_alphabetic(c) == c \in 65..90 \/ c \in 97..122
is_ascii_alphanumeric(c) == is_ascii_alphabetic(c) \/ is_ascii_digit(c)
to_ascii_lowercase(s) ==
    [i \in DOMAIN s |-> IF s[i] \in 65..90 THEN s[i] + 32 ELSE s[i]]
eq_ignore_ascii_case(a, b) == to_ascii_lowercase(a) = to_ascii_lowercase(b)

\* while parser.take(|c| c.is_ascii_alphanumeric() || c == '_') {}
RECURSIVE take_ident_chars(_, _)
take_ident_chars(src, index) ==
    IF index < Len(src) /\ (is_ascii_alphanumeric(src[index + 1]) \/ src[index + 1] = 95)
    THEN take_ident_chars(src, index + 1)
    ELSE index

\* QQLParser::parse_ident: Ok(Some(ident)), or Ok(None) when no identifier
\* starts at the cursor; the failed take has consumed nothing.
parse_ident(src, index) ==
    LET start == whitespace(src, index)
    IN  IF ~(start < Len(src)
             /\ (is_ascii_alphabetic(src[start + 1]) \/ src[start + 1] = 95))
        THEN ParseOk(None, index)
        ELSE LET end == take_ident_chars(src, start + 1)
             IN  ParseOk(Some(Id(Slice(src, start, end), start)), end)

\* QQLParser::parse_number::<u64> at the cursor.
parse_number_at(src, index) ==
    With(whitespace(src, index), LAMBDA at :
    With(parse_number(remaining(src, at)), LAMBDA r :
        IF r.kind = "Err" THEN QErr("unable to parse number", index)
        ELSE IF r.val.some THEN ParseOk(r.val, at + r.index)
        ELSE ParseOk(None, index)))

\* Variant of take_keyword: the cursor is not put back on a miss.
take_keyword_no_restore(src, index, keyword) ==
    With(parse_ident(src, index), LAMBDA ident :
        [ok |-> ident.val.some /\ ident.val.val.value = keyword,
         index |-> ident.index])

\* QQLParser::take_keyword: expect_keyword, and on Err(_) the location saved
\* at entry is put back.  [ok, index].
take_keyword(src, index, keyword) ==
    With(index, LAMBDA location :
    With(parse_ident(src, index), LAMBDA ident :
        IF ident.val.some /\ ident.val.val.value = keyword
        THEN [ok |-> TRUE, index |-> ident.index]
        ELSE [ok |-> FALSE, index |-> location]))

\* QQLParser::take_keyword_insensitive: [ok, index].
take_keyword_insensitive(src, index, keyword) ==
    With(index, LAMBDA location :
    With(parse_ident(src, index), LAMBDA ident :
        IF ~ident.val.some
        THEN [ok |-> FALSE, index |-> ident.index]
        ELSE IF ~eq_ignore_ascii_case(ident.val.val.value, keyword)
        THEN [ok |-> FALSE, index |-> location]
        ELSE [ok |-> TRUE, index |-> ident.index]))

\* Parser::atomic: the position the closure reached is committed on Ok and
\* dropped on Err.
Parser_atomic(location, value) ==
    IF value.kind = "Err" THEN [value EXCEPT !.index = location] ELSE value

\* QQLParser::atomic: the closure runs on a parser cloned from the snapshot,
\* whose location is copied back before the value is returned.
atomic(location, value) == Parser_atomic(location, value)

\* Parser::expect: a miss is a hard error at the cursor.
expect(src, index, token) ==
    With(take(src, index, token), LAMBDA t :
        IF t.ok THEN ParseOk(TRUE, t.index) ELSE QErr("expected token", t.index))

\* parse_ident().ok_or_else(|| ParseError::new(message, location))
expect_ident(src, index, message) ==
    With(parse_ident(src, index), LAMBDA ident :
        IF ident.val.some THEN ParseOk(ident.val.val, ident.index)
        ELSE QErr(message, ident.index))

(***************************************************************************)
(* QQL expressions                                                         *)
(***************************************************************************)
Expr_Binary(l, op, r) == [tag |-> "Binary", l |-> l, op |-> op, r |-> r]
Expr_Unary(op, r) == [tag |-> "Unary", op |-> op, r |-> r]
Expr_Number(n) == [tag |-> "Number", n |-> n]
Expr_Interp(var) == [tag |-> "Interp", var |-> var]
Expr_Field(model, field) == [tag |-> "Field", model |-> model, field |-> field]

PRIMARY_EXPR_ERROR == "expected primary expression"

\* The closure of the atomic call of parse_qql_expression_primary: '#' and
\* an identifier.
parse_interp(src, index) ==
    With(take(src, index, Chars(<<"#">>)), LAMBDA hash :
        IF ~hash.ok THEN ParseOk(None, hash.index)
        ELSE With(parse_ident(src, hash.index), LAMBDA ident :
                 IF ~ident.val.some
                 THEN QErr("expected argument name", ident.index)
                 ELSE ident))

parse_qql_expression_primary(src, index) ==
    Try(parse_number_at(src, index), LAMBDA number :
        IF number.val.some
        THEN ParseOk(Expr_Number(number.val.val), number.index)
        ELSE
        With(parse_ident(src, number.index), LAMBDA ident :
            IF ident.val.some
            THEN With(take(src, ident.index, Chars(<<".">>)), LAMBDA dot :
                     IF dot.ok
                     THEN With(parse_ident(src, dot.index), LAMBDA field_name :
                              IF ~field_name.val.some
                              THEN QErr("expected field name after model name",
                                        field_name.index)
                              ELSE ParseOk(Expr_Field(ident.val, field_name.val.val),
                                           field_name.index))
                     ELSE ParseOk(Expr_Field(None, ident.val.val), dot.index))
            ELSE
            Try(atomic(ident.index, parse_interp(src, ident.index)), LAMBDA interp :
                IF interp.val.some
                THEN ParseOk(Expr_Interp(interp.val.val), interp.index)
                ELSE QErr(PRIMARY_EXPR_ERROR, interp.index))))

\* The operand of parse_qql_expression_unary under its operator, if any.
unary_operand(src, index, op) ==
    Try(parse_qql_expression_primary(src, index), LAMBDA rhs :
        IF op.some THEN ParseOk(Expr_Unary(op.val, rhs.val), rhs.index) ELSE rhs)

parse_qql_expression_unary(src, index) ==
    With(take_keyword(src, index, Chars(<<"n", "o", "t">>)), LAMBDA not_ :
        IF not_.ok THEN unary_operand(src, not_.index, Some("Not"))
        ELSE With(take(src, not_.index, Chars(<<"-">>)), LAMBDA minus :
                 unary_operand(src, minus.index,
                               IF minus.ok THEN Some("Negative") ELSE None)))

\* Variant of level_ops: the operators of term and of factor are exchanged.
level_ops_term_factor_swapped(level) ==
    CASE level = "or" -> << <<Chars(<<"o", "r">>), "Or">> >>
      [] level = "and" -> << <<Chars(<<"a", "n", "d">>), "And">> >>
      [] level = "eq" -> << <<Chars(<<"=", "=">>), "Eq">>, <<Chars(<<"!", "=">>), "Ne">> >>
      [] level = "ord" -> << <<Chars(<<">", "=">>), "Ge">>, <<Chars(<<">">>), "Gt">>,
                             <<Chars(<<"<", "=">>), "Le">>, <<Chars(<<"<">>), "Lt">> >>
      [] level = "factor" -> << <<Chars(<<"+">>), "Add">>, <<Chars(<<"-">>), "Sub">> >>
      [] level = "term" -> << <<Chars(<<"*">>), "Mul">>, <<Chars(<<"/">>), "Div">>,
                              <<Chars(<<"%">>), "Rem">> >>

\* The operators of each binary level, in the order the level tries them.
level_ops(level) ==
    CASE level = "or" -> << <<Chars(<<"o", "r">>), "Or">> >>
      [] level = "and" -> << <<Chars(<<"a", "n", "d">>), "And">> >>
      [] level = "eq" -> << <<Chars(<<"=", "=">>), "Eq">>, <<Chars(<<"!", "=">>), "Ne">> >>
      [] level = "ord" -> << <<Chars(<<">", "=">>), "Ge">>, <<Chars(<<">">>), "Gt">>,
                             <<Chars(<<"<", "=">>), "Le">>, <<Chars(<<"<">>), "Lt">> >>
      [] level = "term" -> << <<Chars(<<"+">>), "Add">>, <<Chars(<<"-">>), "Sub">> >>
      [] level = "factor" -> << <<Chars(<<"*">>), "Mul">>, <<Chars(<<"/">>), "Div">>,
                                <<Chars(<<"%">>), "Rem">> >>

\* The level whose parser a level calls for its operands.
next_level(level) ==
    CASE level = "or" -> "and" [] level = "and" -> "eq" [] level = "eq" -> "ord"
      [] level = "ord" -> "term" [] level = "term" -> "factor"
      [] level = "factor" -> "unary"

\* The first operator of the level, from operator i on, that is taken at the
\* cursor: take_keyword_insensitive for or/and, Parser::take for the others.
RECURSIVE take_op(_, _, _, _)
take_op(level, src, index, i) ==
    With(level_ops(level), LAMBDA ops :
        IF i > Len(ops) THEN [ok |-> FALSE, index |-> index]
        ELSE With(IF level \in {"or", "and"}
                  THEN take_keyword_insensitive(src, index, ops[i][1])
                  ELSE take(src, index, ops[i][1]),
                  LAMBDA t :
                      IF t.ok THEN [ok |-> TRUE, op |-> ops[i][2], index |-> t.index]
                      ELSE take_op(level, src, t.index, i + 1)))

\* One binary level: an operand of the next level, then the loop that folds
\* operator and operand into the expression, left to right.
RECURSIVE parse_level(_, _, _)
RECURSIVE binary_loop(_, _, _, _)
parse_level(level, src, index) ==
    IF level = "unary" THEN parse_qql_expression_unary(src, index)
    ELSE Try(parse_level(next_level(level), src, index), LAMBDA expr :
             binary_loop(level, src, expr.val, expr.index))
binary_loop(level, src, expr, index) ==
    With(take_op(level, src, index, 1), LAMBDA t :
        IF ~t.ok THEN ParseOk(expr, t.index)
        ELSE Try(parse_level(next_level(level), src, t.index), LAMBDA rhs :
                 binary_loop(level, src, Expr_Binary(expr, t.op, rhs.val), rhs.index)))

parse_qql_expression_or(src, index) == parse_level("or", src, index)

\* Variant of try_parse_qql_expression: the sentinel counts as absence only
\* when the cursor has not moved.
try_parse_qql_expression_unmoved(src, index) ==
    With(parse_qql_expression_or(src, index), LAMBDA expr :
        IF expr.kind = "Ok" THEN ParseOk(Some(expr.val), expr.index)
        ELSE IF expr.message = PRIMARY_EXPR_ERROR /\ expr.index = index
        THEN ParseOk(None, expr.index)
        ELSE expr)

try_parse_qql_expression(src, index) ==
    With(parse_qql_expression_or(src, index), LAMBDA expr :
        IF expr.kind = "Ok" THEN ParseOk(Some(expr.val), expr.index)
        ELSE IF expr.message = PRIMARY_EXPR_ERROR THEN ParseOk(None, expr.index)
        ELSE expr)

parse_qql_expression(src, index) ==
    Try(try_parse_qql_expression(src, index), LAMBDA expr :
        IF ~expr.val.some THEN QErr("expected qql expression", expr.index)
        ELSE ParseOk(expr.val.val, expr.index))

(***************************************************************************)
(* QQL statements                                                          *)
(***************************************************************************)
Quantifier_One == [tag |-> "One"]
Quantifier_All == [tag |-> "All"]
Quantifier_Number(n) == [tag |-> "Number", n |-> n]
Quantifier_Expr(e) == [tag |-> "Expr", expr |-> e]

QUANTIFIER_ERROR_MSG == "expected 'ONE', 'ALL', a number, or an expression"

parse_qql_quantifier(src, index) ==
    With(parse_ident(src, index), LAMBDA ident :
        IF ident.val.some
        THEN IF eq_ignore_ascii_case(ident.val.val.value, Chars(<<"o", "n", "e">>))
             THEN ParseOk(Quantifier_One, ident.index)
             ELSE IF eq_ignore_ascii_case(ident.val.val.value, Chars(<<"a", "l", "l">>))
             THEN ParseOk(Quantifier_All, ident.index)
             ELSE QErr(QUANTIFIER_ERROR_MSG, ident.index)
        ELSE
        Try(parse_number_at(src, ident.index), LAMBDA number :
            IF number.val.some
            THEN ParseOk(Quantifier_Number(number.val.val), number.index)
            ELSE
            Try(try_parse_qql_expression(src, number.index), LAMBDA expr :
                IF expr.val.some
                THEN ParseOk(Quantifier_Expr(expr.val.val), expr.index)
                ELSE QErr(QUANTIFIER_ERROR_MSG, expr.index))))

\* The end of parse_field_type: the optional '?'.
field_type_optional(src, index, name, arg) ==
    With(take(src, index, Chars(<<"?">>)), LAMBDA optional :
        ParseOk([name |-> name, arg |-> arg, optional |-> optional.ok],
                optional.index))

parse_field_type(src, index) ==
    Try(expect_ident(src, index, "expected type name"), LAMBDA name :
    With(take(src, name.index, Chars(<<"(">>)), LAMBDA open :
        IF ~open.ok THEN field_type_optional(src, open.index, name.val, None)
        ELSE
        Try(parse_number_at(src, open.index), LAMBDA value :
            IF ~value.val.some THEN QErr("expected type argument", value.index)
            ELSE Try(expect(src, value.index, Chars(<<")">>)), LAMBDA close :
                     field_type_optional(src, close.index, name.val, value.val)))))

parse_model_field(src, index) ==
    Try(expect_ident(src, index, "expected field name"), LAMBDA name :
    Try(expect(src, name.index, Chars(<<":">>)), LAMBDA colon :
    Try(parse_field_type(src, colon.index), LAMBDA type_ :
        ParseOk([name |-> name.val, type_ |-> type_.val], type_.index))))

\* The item parsers handed to parse_separated_terminated.
parse_item(parse_fn, src, index) ==
    CASE parse_fn = "parse_model_field" -> parse_model_field(src, index)
      [] parse_fn = "selector_field" -> expect_ident(src, index, "expected field name")
      [] parse_fn = "query_arg" -> expect_ident(src, index, "expected identifier")

\* Variant of separated_loop: the terminal ends the list only before the
\* first item, so that a separator must be followed by an item.
RECURSIVE separated_loop_item_after_separator(_, _, _, _, _, _)
separated_loop_item_after_separator(src, index, terminal, separator, parse_fn, out) ==
    IF at_end(src, index) \/ (out = <<>> /\ peek_token(src, index, terminal))
    THEN ParseOk(out, index)
    ELSE Try(parse_item(parse_fn, src, index), LAMBDA item :
         With(take(src, item.index, separator), LAMBDA sep :
             IF ~sep.ok THEN ParseOk(Append(out, item.val), sep.index)
             ELSE separated_loop_item_after_separator(
                      src, sep.index, terminal, separator, parse_fn,
                      Append(out, item.val))))

\* while !at_end() && !peek(terminal) { out.push(parse_fn(self)?);
\*                                      if !take(separator) { break; } }
RECURSIVE separated_loop(_, _, _, _, _, _)
separated_loop(src, index, terminal, separator, parse_fn, out) ==
    IF at_end(src, index) \/ peek_token(src, index, terminal)
    THEN ParseOk(out, index)
    ELSE Try(parse_item(parse_fn, src, index), LAMBDA item :
         With(take(src, item.index, separator), LAMBDA sep :
             IF ~sep.ok THEN ParseOk(Append(out, item.val), sep.index)
             ELSE separated_loop(src, sep.index, terminal, separator, parse_fn,
                                 Append(out, item.val))))

parse_separated_terminated(src, index, terminal, separator, parse_fn) ==
    separated_loop(src, index, terminal, separator, parse_fn, <<>>)

parse_qql_selector(src, index) ==
    Try(expect_ident(src, index, "expected model name"), LAMBDA name :
    Try(expect(src, name.index, Chars(<<"(">>)), LAMBDA open :
    Try(parse_separated_terminated(src, open.index, Chars(<<")">>), Chars(<<",">>),
                                   "selector_field"), LAMBDA fields :
    Try(expect(src, fields.index, Chars(<<")">>)), LAMBDA close :
        ParseOk([name |-> name.val, fields |-> fields.val], close.index)))))

\* parse_separated(',', parse_qql_selector): one selector, then one more
\* after every separator.
RECURSIVE selectors_loop(_, _, _)
selectors_loop(src, index, out) ==
    Try(parse_qql_selector(src, index), LAMBDA item :
    With(take(src, item.index, Chars(<<",">>)), LAMBDA sep :
        IF sep.ok THEN selectors_loop(src, sep.index, Append(out, item.val))
        ELSE ParseOk(Append(out, item.val), sep.index)))

parse_qql_action(src, index) ==
    Try(expect_ident(src, index, "expected 'select' or 'update' or 'delete'"),
        LAMBDA ident :
        IF eq_ignore_ascii_case(ident.val.value, Chars(<<"s","e","l","e","c","t">>))
        THEN ParseOk("Select", ident.index)
        ELSE IF eq_ignore_ascii_case(ident.val.value, Chars(<<"u","p","d","a","t","e">>))
        THEN ParseOk("Update", ident.index)
        ELSE IF eq_ignore_ascii_case(ident.val.value, Chars(<<"d","e","l","e","t","e">>))
        THEN ParseOk("Delete", ident.index)
        ELSE QErr("Expected 'select', 'update', or 'delete'", ident.index))

parse_qql_where_clause(src, index) ==
    With(take_keyword_insensitive(src, index, Chars(<<"w","h","e","r","e">>)),
         LAMBDA where :
        IF ~where.ok THEN ParseOk(None, where.index)
        ELSE Try(parse_qql_expression(src, where.index), LAMBDA expr :
                 ParseOk(Some([expr |-> expr.val]), expr.index)))

parse_qql_statement(src, index) ==
    Try(parse_qql_action(src, index), LAMBDA action :
    Try(parse_qql_quantifier(src, action.index), LAMBDA quantifier :
    Try(selectors_loop(src, quantifier.index, <<>>), LAMBDA selectors :
    Try(parse_qql_where_clause(src, selectors.index), LAMBDA where_clause :
        ParseOk([action |-> action.val,
                 quantifier |-> quantifier.val,
                 selectors |-> selectors.val,
                 where_clause |-> where_clause.val],
                where_clause.index)))))

\* Ok(None) when the keyword model is not next.
parse_model(src, index) ==
    With(take_keyword(src, index, Chars(<<"m","o","d","e","l">>)), LAMBDA keyword :
        IF ~keyword.ok THEN ParseOk(None, keyword.index)
        ELSE
        Try(expect_ident(src, keyword.index, "expected model name"), LAMBDA name :
        Try(expect(src, name.index, Chars(<<"{">>)), LAMBDA open :
        Try(parse_separated_terminated(src, open.index, Chars(<<"}">>), Chars(<<",">>),
                                       "parse_model_field"), LAMBDA fields :
        Try(expect(src, fields.index, Chars(<<"}">>)), LAMBDA close :
            ParseOk(Some([name |-> name.val, fields |-> fields.val]),
                    close.index))))))

\* Ok(None) when the keyword query is not next.
parse_query(src, index) ==
    With(take_keyword(src, index, Chars(<<"q","u","e","r","y">>)), LAMBDA keyword :
        IF ~keyword.ok THEN ParseOk(None, keyword.index)
        ELSE
        Try(expect_ident(src, keyword.index, "Expected query name"), LAMBDA name :
        Try(expect(src, name.index, Chars(<<"(">>)), LAMBDA open :
        Try(parse_separated_terminated(src, open.index, Chars(<<")">>), Chars(<<",">>),
                                       "query_arg"), LAMBDA args :
        Try(expect(src, args.index, Chars(<<")">>)), LAMBDA close :
        Try(expect(src, close.index, Chars(<<"{">>)), LAMBDA brace :
        Try(parse_qql_statement(src, brace.index), LAMBDA statement :
        Try(expect(src, statement.index, Chars(<<"}">>)), LAMBDA end :
            ParseOk(Some([name |-> name.val,
                          args |-> args.val,
                          statement |-> statement.val]),
                    end.index)))))))))

QQLFile_default == [models |-> {}, queries |-> {}]

\* QQLParser::parse from the cursor on: models and queries until the end of
\* the source.
RECURSIVE QQLParser_parse(_, _, _)
QQLParser_parse(src, index, out) ==
    IF at_end(src, index) THEN ParseOk(out, index)
    ELSE
    Try(parse_model(src, index), LAMBDA model :
        IF model.val.some
        THEN QQLParser_parse(src, model.index,
                 [out EXCEPT !.models = HashMap_insert(@, model.val.val.name, model.val.val)])
        ELSE
        Try(parse_query(src, model.index), LAMBDA query :
            IF query.val.some
            THEN QQLParser_parse(src, query.index,
                     [out EXCEPT !.queries = HashMap_insert(@, query.val.val.name, query.val.val)])
            ELSE QErr("expected model or query", query.index)))

\* QQLParser::new(s): a fresh parser, the cursor at the start of s.
QQLParser_new(s) == [source |-> s, location |-> 0]

\* <QQLFile as FromStr>::from_str: the outcome without the cursor.
QQLFile_from_str(s) ==
    With(QQLParser_new(s), LAMBDA parser :
    With(QQLParser_parse(parser.source, parser.location, QQLFile_default), LAMBDA r :
        IF r.kind = "Ok" THEN [kind |-> "Ok", val |-> r.val]
        ELSE [kind |-> "Err", message |-> r.message, location |-> r.index]))

(***************************************************************************)
(* The config parser on a source: groups and their values.                 *)
(***************************************************************************)
\* ConfigParser::parse_ident: a leading '-' is accepted as well.
config_parse_ident(src, index) ==
    With(whitespace(src, index), LAMBDA start :
        IF ~(start < Len(src)
             /\ (is_ascii_alphabetic(src[start + 1]) \/ src[start + 1] \in {95, 45}))
        THEN ParseOk(None, index)
        ELSE With(take_ident_chars(src, start + 1), LAMBDA end :
                 ParseOk(Some(Id(Slice(src, start, end), start)), end)))

\* ConfigParser::parse_string and parse_int::<i64> at the cursor.
parse_string_at(src, index) ==
    With(whitespace(src, index), LAMBDA at :
    With(parse_string(remaining(src, at)), LAMBDA r :
        IF r.kind = "Err" THEN QErr("invalid string literal", index)
        ELSE IF r.val.some THEN ParseOk(r.val, at + r.index)
        ELSE ParseOk(None, index)))
parse_int_at(src, index) ==
    With(whitespace(src, index), LAMBDA at :
    With(parse_int(remaining(src, at)), LAMBDA r :
        IF r.kind = "Err" THEN QErr("unable to parse number", index)
        ELSE IF r.val.some THEN ParseOk(r.val, at + r.index)
        ELSE ParseOk(None, index)))

\* The components of a path: '/' and a name, a name being a first character
\* and then characters among which blanks are accepted.
is_path_start(c) == is_ascii_alphanumeric(c) \/ c \in {95, 46}
RECURSIVE take_path_chars(_, _)
take_path_chars(src, index) ==
    IF index < Len(src) /\ (is_path_start(src[index + 1]) \/ src[index + 1] = 32)
    THEN take_path_chars(src, index + 1)
    ELSE index
RECURSIVE path_loop(_, _)
path_loop(src, index) ==
    IF ~peek(src, index, 47) THEN index
    ELSE IF ~(index + 1 < Len(src) /\ is_path_start(src[index + 2])) THEN index + 1
    ELSE path_loop(src, take_path_chars(src, index + 2))
\* ConfigParser::parse_path
parse_path(src, index) ==
    With(whitespace(src, index), LAMBDA start :
    With(IF start + 2 <= Len(src) /\ Slice(src, start, start + 2) = <<46, 46>>
         THEN Some(start + 2)
         ELSE IF peek(src, start, 46) \/ peek(src, start, 126) THEN Some(start + 1)
         ELSE IF peek(src, start, 47) THEN Some(start)
         ELSE None, LAMBDA head :
        IF ~head.some THEN ParseOk(None, index)
        ELSE With(path_loop(src, head.val), LAMBDA end :
                 ParseOk(Some(Slice(src, start, end)), end))))

RECURSIVE parse_value(_, _)
RECURSIVE group_loop(_, _, _)
RECURSIVE args_loop(_, _, _)
\* while !at_end() && !peek('}') { name = parse_ident() or "Expected field
\* name"; value = parse_value()?; out.inner.insert(name, value); }
group_loop(src, index, out) ==
    IF at_end(src, index) \/ peek_token(src, index, <<125>>)
    THEN ParseOk(out, index)
    ELSE With(config_parse_ident(src, index), LAMBDA name :
             IF ~name.val.some THEN QErr("Expected field name", name.index)
             ELSE Try(parse_value(src, name.index), LAMBDA value :
                      group_loop(src, value.index,
                                 HashMap_insert(out, name.val.val, value.val))))

\* ConfigParser::parse_group
parse_group(src, index) ==
    With(take(src, index, <<123>>), LAMBDA open :
        IF ~open.ok THEN ParseOk(None, index)
        ELSE Try(group_loop(src, open.index, {}), LAMBDA inner :
             Try(expect(src, inner.index, <<125>>), LAMBDA close :
                 ParseOk(Some(Group("session", inner.val)), close.index))))

\* ConfigParser::parse_separated_terminated(')', ',', parse_value)
args_loop(src, index, out) ==
    IF at_end(src, index) \/ peek_token(src, index, <<41>>)
    THEN ParseOk(out, index)
    ELSE Try(parse_value(src, index), LAMBDA item :
         With(take(src, item.index, <<44>>), LAMBDA sep :
             IF ~sep.ok THEN ParseOk(Append(out, item.val), sep.index)
             ELSE args_loop(src, sep.index, Append(out, item.val))))

\* ConfigParser::parse_function
parse_function(src, index) ==
    With(config_parse_ident(src, index), LAMBDA name :
        IF ~name.val.some THEN ParseOk(None, index)
        ELSE Try(expect(src, name.index, <<40>>), LAMBDA open :
             Try(args_loop(src, open.index, <<>>), LAMBDA args :
             Try(expect(src, args.index, <<41>>), LAMBDA close :
                 ParseOk(Some(VFunction(name.val.val, args.val)), close.index)))))

\* ConfigParser::parse_value: group, string, integer, function, path.
parse_value(src, index) ==
    Try(parse_group(src, index), LAMBDA group :
        IF group.val.some THEN ParseOk(VGroup(group.val.val), group.index)
        ELSE
    Try(parse_string_at(src, index), LAMBDA string :
        IF string.val.some THEN ParseOk(VString(string.val.val), string.index)
        ELSE
    Try(parse_int_at(src, index), LAMBDA int :
        IF int.val.some THEN ParseOk(VInt(int.val.val), int.index)
        ELSE
    Try(parse_function(src, index), LAMBDA function :
        IF function.val.some THEN ParseOk(function.val.val, function.index)
        ELSE
    Try(parse_path(src, index), LAMBDA path :
        IF path.val.some THEN ParseOk(VPath(path.val.val), path.index)
        ELSE QErr("Expected value: group, string, integer, function, or path",
                  index))))))

\* Config::from_directory on the content of the project file: the entries
\* go into Group::default() until the end of the source.
RECURSIVE project_loop(_, _, _)
project_loop(src, index, out) ==
    IF at_end(src, index) THEN ParseOk(Group("new", out), index)
    ELSE With(config_parse_ident(src, index), LAMBDA name :
             IF ~name.val.some THEN QErr("Expected field name", name.index)
             ELSE Try(parse_value(src, name.index), LAMBDA value :
                      project_loop(src, value.index,
                                   HashMap_insert(out, name.val.val, value.val))))

(***************************************************************************)
(* validate_database and validate_file as a state machine.                 *)
(***************************************************************************)
VARIABLES
    dir,            \* the entries of the database directory
    unread,         \* the entries read_dir has not yielded yet
    todo_models,    \* models of the current file not visited yet
    todo_queries,   \* queries of the current file not visited yet
    models,         \* Context.models, the model registry
    pc,             \* "read_dir", "models", "queries", "done", "migrated"
    result,         \* the result of validate_database, Pending while it runs
    last,           \* the last call of model::validate or query::validate
    functions,      \* Context.functions of the config session
    cphase,         \* "idle", "setup", "parsed", "dropped"
    config,         \* the parsed configuration, NoConfig before the parse
    env,            \* the process environment
    call,           \* the last call of add_function or of a Group getter
    source,         \* the text a parser is run on
    parsed          \* the last call of a literal parser

dbvars == <<dir, unread, todo_models, todo_queries, models, pc, result, last>>
cfgvars == <<functions, cphase, config, env, call>>
lexvars == <<source, parsed>>
vars == <<dbvars, cfgvars, lexvars>>

NoConfig == [by |-> "none"]
\* No config session and no parser run.
ConfigIdle ==
    /\ functions = Context_empty
    /\ cphase = "idle"
    /\ config = NoConfig
    /\ env = <<>>
    /\ call = [op |-> "none"]
LexIdle ==
    /\ source = <<>>
    /\ parsed = [op |-> "none"]

Pending == [kind |-> "Pending"]
ParseError == [kind |-> "ParseError"]

Init ==
    /\ dir \in Directories
    /\ unread = dir
    /\ todo_models = {}
    /\ todo_queries = {}
    /\ models = {}
    /\ pc = "read_dir"
    /\ result = Pending
    /\ last = [op |-> "none"]
    /\ ConfigIdle
    /\ LexIdle

\* Where validate_file stands with these declarations left.
file_pc(ms, qs) ==
    IF ms # {} THEN "models" ELSE IF qs # {} THEN "queries" ELSE "read_dir"

\* read_dir yields an entry that is not a file: continue.
SkipEntry ==
    /\ pc = "read_dir"
    /\ \E e \in unread :
        /\ e.kind # "file"
        /\ unread' = unread \ {e}
    /\ UNCHANGED <<dir, todo_models, todo_queries, models, pc, result, last>>
    /\ UNCHANGED <<cfgvars, lexvars>>

\* content.parse()? fails.
ParseFail ==
    /\ pc = "read_dir"
    /\ \E e \in unread :
        /\ e.kind = "file" /\ ~e.parsed.ok
        /\ unread' = unread \ {e}
    /\ result' = ParseError
    /\ pc' = "done"
    /\ UNCHANGED <<dir, todo_models, todo_queries, models, last>>
    /\ UNCHANGED <<cfgvars, lexvars>>

\* The file parses: validate_file starts on it.
OpenFile ==
    /\ pc = "read_dir"
    /\ \E e \in unread :
        /\ e.kind = "file" /\ e.parsed.ok
        /\ unread' = unread \ {e}
        /\ todo_models' = e.parsed.models
        /\ todo_queries' = e.parsed.queries
        /\ pc' = file_pc(e.parsed.models, e.parsed.queries)
    /\ UNCHANGED <<dir, models, result, last>>
    /\ UNCHANGED <<cfgvars, lexvars>>

\* file.models.values().for_each(model::validate): a failure is recorded and
\* the walk goes on.
ValidateModel_keep_going ==
    /\ pc = "models"
    /\ \E m \in todo_models :
        LET r == model_validate(TypeStore_default, models, m)
        IN  /\ models' = r.models
            /\ last' = [op |-> "model", input |-> m, before |-> models, res |-> r.res]
            /\ todo_models' = todo_models \ {m}
            /\ pc' = file_pc(todo_models', todo_queries)
            /\ result' = IF r.res.kind = "Ok" THEN result ELSE r.res
    /\ UNCHANGED <<dir, unread, todo_queries>>
    /\ UNCHANGED <<cfgvars, lexvars>>

\* file.models.values().try_for_each(model::validate): one model, in the
\* order the hash map yields them.
ValidateModel ==
    /\ pc = "models"
    /\ \E m \in todo_models :
        LET r == model_validate(TypeStore_default, models, m)
        IN  /\ models' = r.models
            /\ last' = [op |-> "model", input |-> m, before |-> models, res |-> r.res]
            /\ IF r.res.kind = "Ok"
               THEN /\ todo_models' = todo_models \ {m}
                    /\ pc' = file_pc(todo_models', todo_queries)
                    /\ UNCHANGED result
               ELSE /\ result' = r.res
                    /\ pc' = "done"
                    /\ UNCHANGED todo_models
    /\ UNCHANGED <<dir, unread, todo_queries>>
    /\ UNCHANGED <<cfgvars, lexvars>>

\* file.queries.values().try_for_each(query::validate): one query.
ValidateQuery ==
    /\ pc = "queries"
    /\ \E q \in todo_queries :
        LET r == query_validate(models, q)
        IN  /\ last' = [op |-> "query", input |-> q, before |-> models, res |-> r]
            /\ IF r.kind = "Ok"
               THEN /\ todo_queries' = todo_queries \ {q}
                    /\ pc' = file_pc({}, todo_queries')
                    /\ UNCHANGED result
               ELSE /\ result' = r
                    /\ pc' = "done"
                    /\ UNCHANGED todo_queries
    /\ UNCHANGED <<dir, unread, todo_models, models>>
    /\ UNCHANGED <<cfgvars, lexvars>>

\* read_dir is exhausted: Ok(()).
Finish ==
    /\ pc = "read_dir"
    /\ unread = {}
    /\ result' = Ok
    /\ pc' = "done"
    /\ UNCHANGED <<dir, unread, todo_models, todo_queries, models, last>>
    /\ UNCHANGED <<cfgvars, lexvars>>

\* migrate_up / migrate_down after validate_database returned Ok: the driver
\* is handed every model of context.models.borrow().values(); the registry
\* is borrowed immutably.
Migrate ==
    /\ pc = "done"
    /\ result = Ok
    /\ pc' = "migrated"
    /\ UNCHANGED <<dir, unread, todo_models, todo_queries, models, result, last>>
    /\ UNCHANGED <<cfgvars, lexvars>>

Next ==
    \/ SkipEntry
    \/ ParseFail
    \/ OpenFile
    \/ ValidateModel
    \/ ValidateQuery
    \/ Finish
    \/ Migrate

Spec == Init /\ [][Next]_vars

(***************************************************************************)
(* A config session as a state machine: a Context is built and functions   *)
(* are registered on it, a project is parsed, the groups of the result are *)
(* asked for values, the Config is dropped while clones of its groups live *)
(* on.                                                                     *)
(***************************************************************************)
\* No validation runs.
DbIdle ==
    /\ dir = {}
    /\ unread = {}
    /\ todo_models = {}
    /\ todo_queries = {}
    /\ models = {}
    /\ pc = "done"
    /\ result = Pending
    /\ last = [op |-> "none"]

\* Context::empty() or Context::default(), in some process environment.
InitConfig ==
    /\ DbIdle
    /\ LexIdle
    /\ functions \in {Context_empty, Context_default}
    /\ cphase = "setup"
    /\ config = NoConfig
    /\ env \in [{"FOO"} -> EnvStates]
    /\ call = [op |-> "none"]

\* context.add_function(name, func)
AddFunction ==
    /\ cphase = "setup"
    /\ \E reg \in Registrations :
        LET r == add_function(functions, reg[1], reg[2])
        IN  /\ functions' = r.functions
            /\ call' = [op |-> "add_function", name |-> reg[1], func |-> reg[2],
                        before |-> functions, res |-> r.res]
    /\ UNCHANGED <<cphase, config, env>>
    /\ UNCHANGED <<dbvars, lexvars>>

\* Config::from_directory: the session's Context is Context::new().
FromDirectory ==
    /\ cphase = "setup"
    /\ call.op = "none"
    /\ functions = Context_default
    /\ \E value \in ConfigValues : config' = Config_from_directory(value)
    /\ cphase' = "parsed"
    /\ UNCHANGED <<functions, env, call>>
    /\ UNCHANGED <<dbvars, lexvars>>

\* The host parses a group with a parser over the Context it has built.
ParseGroup ==
    /\ cphase = "setup"
    /\ \E value \in ConfigValues : config' = ConfigParser_parse_group(value)
    /\ cphase' = "parsed"
    /\ UNCHANGED <<functions, env, call>>
    /\ UNCHANGED <<dbvars, lexvars>>

\* The group a lookup goes to: the top-level group, or the group under
\* `database`, reached with get_group.
LookupGroup(cfg, path) ==
    IF path = "top" THEN cfg.inner
    ELSE Group_get_group(cfg.inner, "database").val.g

\* group.eval(key), group.get_string(key).  After the drop the groups asked
\* are clones taken before it.
GroupEval ==
    /\ cphase \in {"parsed", "dropped"}
    /\ \E lookup \in Lookups, getter \in Getters :
        LET group == LookupGroup(config, lookup[1])
            alive == cphase = "parsed"
            r == IF getter = "eval"
                 THEN Group_eval(group, lookup[2], alive, functions, env)
                 ELSE Group_get_typed(group, lookup[2], "String", alive, functions, env)
        IN  call' = [op |-> "eval", getter |-> getter, path |-> lookup[1],
                     key |-> lookup[2], alive |-> alive,
                     res |-> r.res, calls |-> r.calls]
    /\ UNCHANGED <<functions, cphase, config, env>>
    /\ UNCHANGED <<dbvars, lexvars>>

\* The Config, and with it the last Rc<Context>, is dropped.
DropConfig ==
    /\ cphase = "parsed"
    /\ cphase' = "dropped"
    /\ UNCHANGED <<functions, config, env, call>>
    /\ UNCHANGED <<dbvars, lexvars>>

NextConfig ==
    \/ AddFunction
    \/ FromDirectory
    \/ ParseGroup
    \/ GroupEval
    \/ DropConfig

SpecConfig == InitConfig /\ [][NextConfig]_vars

(***************************************************************************)
(* A literal parser run on a source.                                       *)
(***************************************************************************)
InitLex ==
    /\ DbIdle
    /\ ConfigIdle
    /\ source \in StringSources(MaxPieces) \cup NumberSources
    /\ parsed = [op |-> "none"]

\* ConfigParser::parse_string
ParseString ==
    /\ parsed' = [op |-> "parse_string", res |-> parse_string(source)]
    /\ UNCHANGED source
    /\ UNCHANGED <<dbvars, cfgvars>>

\* ConfigParser::parse_int
ParseInt ==
    /\ parsed' = [op |-> "parse_int", res |-> parse_int(source)]
    /\ UNCHANGED source
    /\ UNCHANGED <<dbvars, cfgvars>>

\* QQLParser::parse_number
ParseNumber ==
    /\ parsed' = [op |-> "parse_number", res |-> parse_number(source)]
    /\ UNCHANGED source
    /\ UNCHANGED <<dbvars, cfgvars>>

NextLex ==
    \/ ParseString
    \/ ParseInt
    \/ ParseNumber

SpecLex == InitLex /\ [][NextLex]_vars

(***************************************************************************)
(* The QQL parser run on a source.  A source is written as lexemes; a       *)
(* blank separates two lexemes that would otherwise read as one word.       *)
(***************************************************************************)
MaxOperands == 3
MaxItems == 3

is_word_char(c) == is_ascii_alphanumeric(c) \/ c = 95
RECURSIVE Join(_)
Join(lexemes) ==
    IF Len(lexemes) = 0 THEN <<>>
    ELSE IF Len(lexemes) = 1 THEN lexemes[1]
    ELSE LET head == lexemes[1]
             rest == Join(Tail(lexemes))
         IN  IF head # <<>> /\ rest # <<>>
                /\ is_word_char(head[Len(head)]) /\ is_word_char(rest[1])
             THEN head \o <<32>> \o rest
             ELSE head \o rest
Lexemes(ls) == Join([i \in DOMAIN ls |-> Chars(ls[i])])

\* Operands with their unary operator, and the binary operators, one or two
\* of every level.
Operands ==
    { <<"a">>, <<"1", "2">>, <<"#", "a">>, <<"-", "a">>, <<"n", "o", "t", " ", "b">> }
BinaryOperators ==
    { <<"*">>, <<"+">>, <<"<">>, <<"=", "=">>, <<"a", "n", "d">>, <<"o", "r">> }

\* operand (operator operand)*, with or without an operator left at the end.
RECURSIVE ExprLexemes(_)
ExprLexemes(n) ==
    IF n = 1 THEN {<<o>> : o \in Operands}
    ELSE LET shorter == ExprLexemes(n - 1)
         IN  shorter \cup
             {e \o <<b, o>> : e \in {x \in shorter : Len(x) = 2 * n - 3},
                              b \in BinaryOperators, o \in Operands}
ExprSources(n) ==
    {Lexemes(e) : e \in ExprLexemes(n)}
        \cup {Lexemes(e \o <<b>>) : e \in ExprLexemes(n - 1),
                                      b \in BinaryOperators \cup {<<"-">>, <<"!", "=">>}}
        \cup {Chars(s) : s \in { <<"1", "+", "2", "*", "3">>,
                                 <<"1", "1", "+", "1", "2", "*", "1", "3">>,
                                 <<"a", "-", "b", "/", "c">>,
                                 <<"a", ">", "=", "b", "%", "c">>,
                                 <<"a", "!", "=", "b", "<", "=", "c">>,
                                 <<"U", ".", "b", "+", "a">>,
                                 <<"U", ".">>, <<"U", ".", "1">>,
                                 <<"a", " ", "O", "R", " ", "b">>,
                                 <<"N", "O", "T", " ", "a">>,
                                 <<"-", "-", "a">>, <<"*", "a">>, <<")">> }}

\* What a statement can start with, with or without a selector behind it.
QuantifierHeads ==
    { <<"o", "n", "e">>, <<"O", "N", "E">>, <<"a", "l", "l">>, <<"A", "l", "l">>,
      <<"o", "n", "e", "s">>, <<"a">>,
      <<"5">>, <<"1", "2">>, <<"1", "_", "0">>, <<"0">>,
      <<"1", "2", "+", "a">>, <<"5", "*", "a">>,
      <<"-", "a">>, <<"#", "a">>, <<"#", "a", "+", "1", "2">>, <<"-", "5">>,
      <<"#", "a", "+">>, <<"#">>, <<"(">> }
QuantifierSources ==
    {Lexemes(<<h>> \o t) : h \in QuantifierHeads,
                            t \in {<<>>, << <<"U">>, <<"(", "a", ")">> >>}}

\* A selector: a name and a parenthesised list written of identifiers,
\* separators and a digit, closed or not.
ListSources ==
    {Lexemes(<< <<"U">>, <<"(">> >> \o items \o (IF closed THEN << <<")">> >> ELSE <<>>)) :
        items \in SeqsUpTo({<<"a">>, <<"b">>, <<",">>, <<"1">>}, MaxItems),
        closed \in BOOLEAN}

KeywordSources ==
    {Chars(s) : s \in { <<>>, <<"n", "o", "t">>, <<"n", "o", "t", "x">>, <<"N", "O", "T">>,
                        <<"n", "o">>, <<"n", "o", "t", " ", "a">>, <<"n", "o", "t", "(">>,
                        <<"o", "r">>, <<"O", "R">>, <<"O", "r">>, <<"o", "r", "x">>,
                        <<"o", "r", " ", "a">>, <<"+">>, <<"1">>,
                        <<"#">>, <<"#", "a">>, <<"#", "a", "+">>, <<"#", "1">>, <<"#", "#">>,
                        <<" ", "+">>, <<" ", "o", "r">>, <<" ", "n", "o", "t", "x">>,
                        <<" ", "O", "R", " ", "+">>, <<" ", "#", "a">>, <<" ", "#", "1">> }}
Keywords == {Chars(<<"n", "o", "t">>), Chars(<<"o", "r">>)}

FileSources ==
    {Lexemes(ls) : ls \in
        { << <<"m","o","d","e","l">>, <<"U">>, <<"{">>, <<"a">>, <<":">>, <<"t">>, <<"}">> >>,
          << <<"m","o","d","e","l">>, <<"U">>, <<"{">>, <<"a">>, <<":">>, <<"t">>, <<",">>, <<"}">> >>,
          << <<"m","o","d","e","l">>, <<"U">>, <<"{">>, <<"a">>, <<":">>, <<"t">>,
             <<"(", "1", "2", ")">>, <<"?">>, <<",">>, <<"b">>, <<":">>, <<"t">>, <<"}">> >>,
          << <<"m","o","d","e","l">>, <<"U">>, <<"{">>, <<"}">>,
             <<"m","o","d","e","l">>, <<"U">>, <<"{">>, <<"a">>, <<":">>, <<"t">>, <<"}">> >>,
          << <<"m","o","d","e","l">>, <<"U">>, <<"{">>, <<"a">>, <<"}">> >>,
          << <<"m","o","d","e","l">>, <<"{">>, <<"}">> >>,
          << <<"q","u","e","r","y">>, <<"q">>, <<"(">>, <<"a">>, <<")">>, <<"{">>,
             <<"s","e","l","e","c","t">>, <<"o","n","e">>, <<"U">>, <<"(", "a", ")">>, <<"}">> >>,
          << <<"q","u","e","r","y">>, <<"q">>, <<"(">>, <<")">>, <<"{">>,
             <<"s","e","l","e","c","t">>, <<"-", "a">>, <<"U">>, <<"(", "a", ")">>,
             <<"w","h","e","r","e">>, <<"a">>, <<"=", "=">>, <<"#", "a">>, <<"}">> >>,
          << <<"q","u","e","r","y">>, <<"q">>, <<"(">>, <<")">>, <<"{">>,
             <<"s","e","l","e","c","t">>, <<"5">>, <<"U">>, <<"(", "a", ")">>, <<"}">> >>,
          << <<"m","o","d","e","l">>, <<"U">>, <<"{">>, <<"}">>,
             <<"q","u","e","r","y">>, <<"q">>, <<"(">>, <<")">>, <<"{">>,
             <<"s","e","l","e","c","t">>, <<"a","l","l">>, <<"U">>, <<"(", ")">>, <<",">>,
             <<"U">>, <<"(", "a", ",", ")">>, <<"}">> >>,
          << <<"x">> >> }}

\* The sources, with expressions of up to n operands.
QQLSources(n) ==
    ExprSources(n) \cup QuantifierSources \cup ListSources \cup KeywordSources
        \cup FileSources

InitQQL ==
    /\ DbIdle
    /\ ConfigIdle
    /\ source \in QQLSources(MaxOperands)
    /\ parsed = [op |-> "none"]

\* Every run is one call on a parser made for the source; from_str is
\* called a second time on the same source.

\* try_parse_qql_expression on a parser at the start of the source.
TryParseExpression ==
    /\ parsed.op = "none"
    /\ parsed' = [op |-> "try_parse_qql_expression",
                  res |-> try_parse_qql_expression(source, 0)]
    /\ UNCHANGED source
    /\ UNCHANGED <<dbvars, cfgvars>>

\* parse_qql_quantifier
ParseQuantifier ==
    /\ parsed.op = "none"
    /\ parsed' = [op |-> "parse_qql_quantifier",
                  res |-> parse_qql_quantifier(source, 0)]
    /\ UNCHANGED source
    /\ UNCHANGED <<dbvars, cfgvars>>

\* take_keyword(keyword)
TakeKeyword ==
    /\ parsed.op = "none"
    /\ \E keyword \in Keywords :
        parsed' = [op |-> "take_keyword", keyword |-> keyword,
                   res |-> take_keyword(source, 0, keyword)]
    /\ UNCHANGED source
    /\ UNCHANGED <<dbvars, cfgvars>>

\* take_keyword_insensitive(keyword)
TakeKeywordInsensitive ==
    /\ parsed.op = "none"
    /\ \E keyword \in Keywords :
        parsed' = [op |-> "take_keyword_insensitive", keyword |-> keyword,
                   res |-> take_keyword_insensitive(source, 0, keyword)]
    /\ UNCHANGED source
    /\ UNCHANGED <<dbvars, cfgvars>>

\* QQLParser::atomic around the closure that reads '#' and an identifier.
Atomic ==
    /\ parsed.op = "none"
    /\ parsed' = [op |-> "atomic",
                  closure |-> parse_interp(source, 0),
                  res |-> atomic(0, parse_interp(source, 0))]
    /\ UNCHANGED source
    /\ UNCHANGED <<dbvars, cfgvars>>

\* parse_qql_selector, whose field list is read by
\* parse_separated_terminated(')', ',', parse_ident).
ParseSelector ==
    /\ parsed.op = "none"
    /\ parsed' = [op |-> "parse_qql_selector",
                  list |-> parse_separated_terminated(
                               source, 2, Chars(<<")">>), Chars(<<",">>), "selector_field"),
                  res |-> parse_qql_selector(source, 0)]
    /\ UNCHANGED source
    /\ UNCHANGED <<dbvars, cfgvars>>

\* Variant of FromStr: the second call goes on with the parser of the first
\* one, whose cursor is at the end of the source.
FromStr_same_parser ==
    /\ parsed.op \in {"none", "from_str"}
    /\ parsed' = [op |-> "from_str",
                  first |-> IF parsed.op = "from_str" THEN Some(parsed.res) ELSE None,
                  res |-> IF parsed.op = "from_str"
                          THEN [kind |-> "Ok",
                                val |-> QQLParser_parse(source, Len(source),
                                                        QQLFile_default).val]
                          ELSE QQLFile_from_str(source)]
    /\ UNCHANGED source
    /\ UNCHANGED <<dbvars, cfgvars>>

\* content.parse::<QQLFile>(), a first time and again: a new parser is made
\* for every call.
FromStr ==
    /\ parsed.op \in {"none", "from_str"}
    /\ parsed' = [op |-> "from_str",
                  first |-> IF parsed.op = "from_str" THEN Some(parsed.res) ELSE None,
                  res |-> QQLFile_from_str(source)]
    /\ UNCHANGED source
    /\ UNCHANGED <<dbvars, cfgvars>>

NextQQL ==
    \/ TryParseExpression
    \/ ParseQuantifier
    \/ TakeKeyword
    \/ TakeKeywordInsensitive
    \/ Atomic
    \/ ParseSelector
    \/ FromStr

SpecQQL == InitQQL /\ [][NextQQL]_vars

(***************************************************************************)
(* The config parser run on a source, and the parsers of keywords, lists   *)
(* and files on the sources written for them.                              *)
(***************************************************************************)
MaxEntries == 3

\* The values an entry is written with, and what each one reads as.
EntryValues ==
    { [text |-> << <<"1">> >>, reads |-> [tag |-> "Int", n |-> <<1>>]],
      [text |-> << <<"2">> >>, reads |-> [tag |-> "Int", n |-> <<2>>]],
      [text |-> << <<"{">>, <<"a">>, <<"1">>, <<"a">>, <<"2">>, <<"}">> >>,
       reads |-> [tag |-> "Group",
                  inner |-> {[k |-> <<97>>, v |-> [tag |-> "Int", n |-> <<2>>]]}]] }
EntryKeys == {<<"a">>, <<"b">>}
Entries == [key : EntryKeys, value : EntryValues]
RECURSIVE EntryLexemes(_)
EntryLexemes(es) ==
    IF es = <<>> THEN <<>>
    ELSE <<es[1].key>> \o es[1].value.text \o EntryLexemes(Tail(es))
\* Every list of entries with the source it is written as, in braces or as
\* the content of a project file.
EntryTable ==
    { [src |-> Lexemes(IF braced THEN << <<"{">> >> \o EntryLexemes(es) \o << <<"}">> >>
                       ELSE EntryLexemes(es)),
       entries |-> es, braced |-> braced] :
          es \in SeqsUpTo(Entries, MaxEntries), braced \in BOOLEAN }
GroupSources ==
    {t.src : t \in EntryTable}
        \cup {Chars(s) : s \in { <<"{", "a", "}">>, <<"{", "a", " ", "1">>, <<"{", "1", "}">>,
                                 <<"a", " ", "e", "(", "1", ",", "2", ")", "a", " ", "1">>,
                                 <<"a", " ", "/", "x", "/", "y">>, <<"a", " ", "b">>,
                                 <<"{", "a", " ", "'", "s", "'", "a", " ", "1", "_", "0", "}">> }}
ParseSources == KeywordSources \cup ListSources \cup FileSources \cup GroupSources

InitParse ==
    /\ DbIdle
    /\ ConfigIdle
    /\ source \in ParseSources
    /\ parsed = [op |-> "none"]

\* ConfigParser::new(context, source).parse_group()
ParseGroupSource ==
    /\ parsed.op = "none"
    /\ parsed' = [op |-> "parse_group", res |-> parse_group(source, 0)]
    /\ UNCHANGED source
    /\ UNCHANGED <<dbvars, cfgvars>>

\* Config::from_directory on a project file of this content, a first time
\* and again: a new parser is made for every call.
ParseProjectSource ==
    /\ parsed.op \in {"none", "from_directory"}
    /\ parsed' = [op |-> "from_directory",
                  first |-> IF parsed.op = "from_directory" THEN Some(parsed.res) ELSE None,
                  res |-> project_loop(source, 0, {})]
    /\ UNCHANGED source
    /\ UNCHANGED <<dbvars, cfgvars>>

NextParse ==
    \/ TakeKeyword
    \/ TakeKeywordInsensitive
    \/ Atomic
    \/ ParseSelector
    \/ FromStr
    \/ ParseGroupSource
    \/ ParseProjectSource

SpecParse == InitParse /\ [][NextParse]_vars

(***************************************************************************)
(* What the specification says of a query, stated on the parsed query and  *)
(* the registry, independently of the validator's operators.               *)
(***************************************************************************)
\* The Number, Interp and Field nodes of an expression, left to right.
RECURSIVE ExprNodes(_)
ExprNodes(e) ==
    CASE e.tag = "Binary" -> ExprNodes(e.l) \o ExprNodes(e.r)
      [] e.tag = "Unary" -> ExprNodes(e.r)
      [] OTHER -> <<e>>

QuantifierNodes(q) ==
    IF q.statement.quantifier.tag = "Expr"
    THEN ExprNodes(q.statement.quantifier.expr)
    ELSE <<>>
WhereNodes(q) ==
    IF q.statement.where_clause.some
    THEN ExprNodes(q.statement.where_clause.val.expr)
    ELSE <<>>
\* Every node the specification has validated: quantifier, then where-clause.
WalkNodes(q) == QuantifierNodes(q) \o WhereNodes(q)

ArgTexts(q) == {q.args[i].value : i \in DOMAIN q.args}
\* The positions of the arguments that repeat an earlier argument.
DuplicateArgs(q) ==
    {j \in DOMAIN q.args : \E i \in 1..(j - 1) : q.args[i].value = q.args[j].value}
ArgsUnique(q) == DuplicateArgs(q) = {}
HasPrincipal(q) == Len(q.statement.selectors) = 1

Min(S) == CHOOSE x \in S : \A y \in S : x <= y

RegistryHas(reg, text) == \E e \in reg : e.k.value = text
RegistryModel(reg, text) == (CHOOSE e \in reg : e.k.value = text).v
ModelFieldTexts(m) == {m.fields[i].name.value : i \in DOMAIN m.fields}

\* The identifier a Field node is resolved against, when there is one.
NodeTarget(q, n) ==
    IF n.model.some THEN n.model
    ELSE IF HasPrincipal(q) THEN Some(q.statement.selectors[1].name)
    ELSE None

\* The verdict the specification gives on one node.
NodeVerdict(reg, q, n) ==
    CASE n.tag = "Number" -> Ok
      [] n.tag = "Interp" ->
            IF n.var.value \in ArgTexts(q) THEN Ok
            ELSE UnknownQueryVariable(q.name, n.var)
      [] n.tag = "Field" ->
            LET t == NodeTarget(q, n)
            IN  IF ~t.some THEN AmbiguousQueryField(q.name, n.field)
                ELSE IF ~RegistryHas(reg, t.val.value)
                     THEN QueryUnknownModel(q.name, t.val, n.field)
                ELSE IF n.field.value \notin ModelFieldTexts(RegistryModel(reg, t.val.value))
                     THEN QueryUnknownField(q.name, RegistryModel(reg, t.val.value).name, n.field)
                ELSE Ok

\* Node i of a walk is the first the walk stops at: every node before it passes.
ReachedIn(reg, q, nodes, i) ==
    \A j \in 1..(i - 1) : NodeVerdict(reg, q, nodes[j]).kind = "Ok"

QueryCalled == last.op = "query"
ModelCalled == last.op = "model"

ParsedFiles == {e \in dir : e.kind = "file" /\ e.parsed.ok}
DefinedIn(d, text) ==
    \E e \in d : e.kind = "file" /\ e.parsed.ok
                 /\ \E m \in e.parsed.models : m.name.value = text

(***************************************************************************)
(* C1. When validate_database validates a project, every model of every   *)
(* file is validated before any query of any file, so a query never fails  *)
(* with QueryUnknownModel on a model that a file of the project defines.   *)
(***************************************************************************)
C1_ModelsBeforeQueries ==
    result.kind = "QueryUnknownModel" => ~DefinedIn(dir, result.model.value)

(***************************************************************************)
(* C2. query::validate returns Ok only if every node of the where-clause   *)
(* passes the resolution checks, as the nodes of the quantifier do.        *)
(***************************************************************************)
C2_WhereClauseWalked ==
    (QueryCalled /\ last.res.kind = "Ok") =>
        \A i \in DOMAIN WalkNodes(last.input) :
            NodeVerdict(last.before, last.input, WalkNodes(last.input)[i]).kind = "Ok"

(***************************************************************************)
(* C3. In a query without a principal model, an unqualified Field(None, f) *)
(* node of the quantifier expression or of the where-clause makes the      *)
(* validation fail, with AmbiguousQueryField{query, f} when it is the      *)
(* first node the walk stops at.                                           *)
(***************************************************************************)
C3_AmbiguousField ==
    (QueryCalled /\ ArgsUnique(last.input) /\ ~HasPrincipal(last.input)) =>
        LET q == last.input
            nodes == WalkNodes(q)
        IN  \A i \in DOMAIN nodes :
                (nodes[i].tag = "Field" /\ ~nodes[i].model.some) =>
                    /\ last.res.kind # "Ok"
                    /\ ReachedIn(last.before, q, nodes, i) =>
                          last.res = AmbiguousQueryField(q.name, nodes[i].field)

(***************************************************************************)
(* C4. The principal model is defined exactly when the statement has one   *)
(* selector and is that selector's model name; an unqualified field of the *)
(* where-clause is resolved against it, and validation fails with          *)
(* QueryUnknownField when the registered principal model lacks the field.  *)
(***************************************************************************)
C4_PrincipalModel ==
    QueryCalled =>
        LET q == last.input
            sels == q.statement.selectors
            nodes == WalkNodes(q)
        IN  /\ principal_model(q).some <=> Len(sels) = 1
            /\ Len(sels) = 1 => principal_model(q).val = sels[1].name
            /\ (ArgsUnique(q) /\ Len(sels) = 1 /\ RegistryHas(last.before, sels[1].name.value)) =>
                  \A i \in (Len(QuantifierNodes(q)) + 1)..Len(nodes) :
                      ( /\ nodes[i].tag = "Field" /\ ~nodes[i].model.some
                        /\ ReachedIn(last.before, q, nodes, i)
                        /\ nodes[i].field.value \notin
                              ModelFieldTexts(RegistryModel(last.before, sels[1].name.value)) )
                      => last.res = QueryUnknownField(
                             q.name, RegistryModel(last.before, sels[1].name.value).name,
                             nodes[i].field)

(***************************************************************************)
(* C5. An Interp(var) node of the quantifier expression or of the          *)
(* where-clause whose var is not a declared argument makes the validation  *)
(* fail, with UnknownQueryVariable{query, var} when it is the first node   *)
(* the walk stops at.                                                      *)
(***************************************************************************)
C5_UnknownVariable ==
    (QueryCalled /\ ArgsUnique(last.input)) =>
        LET q == last.input
            nodes == WalkNodes(q)
        IN  \A i \in DOMAIN nodes :
                (nodes[i].tag = "Interp" /\ nodes[i].var.value \notin ArgTexts(q)) =>
                    /\ last.res.kind # "Ok"
                    /\ ReachedIn(last.before, q, nodes, i) =>
                          last.res = UnknownQueryVariable(q.name, nodes[i].var)

(***************************************************************************)
(* C6. A field reference resolved against model m and field f: when m is   *)
(* not a key of the registry the result is QueryUnknownModel{query, m, f};  *)
(* when m is registered without a field f it is QueryUnknownField{query,    *)
(* model, f}; otherwise the reference passes.                               *)
(***************************************************************************)
C6_ResolutionOrder ==
    (QueryCalled /\ ArgsUnique(last.input)) =>
        LET q == last.input
            reg == last.before
            nodes == QuantifierNodes(q)
        IN  \A i \in DOMAIN nodes :
                ( /\ nodes[i].tag = "Field"
                  /\ NodeTarget(q, nodes[i]).some
                  /\ ReachedIn(reg, q, nodes, i) ) =>
                LET m == NodeTarget(q, nodes[i]).val
                    f == nodes[i].field
                IN  IF ~RegistryHas(reg, m.value)
                    THEN last.res = QueryUnknownModel(q.name, m, f)
                    ELSE IF f.value \notin ModelFieldTexts(RegistryModel(reg, m.value))
                    THEN last.res =
                            QueryUnknownField(q.name, RegistryModel(reg, m.value).name, f)
                    ELSE /\ last.res.kind \notin {"QueryUnknownModel", "QueryUnknownField"}
                            \/ ~(last.res.model.value = m.value /\ last.res.field = f)
                         /\ (i = Len(nodes)) => last.res = Ok

\* A registered model lacks the referenced field.
C6_Witness ==
    /\ QueryCalled
    /\ last.res.kind = "QueryUnknownField"
    /\ RegistryHas(last.before, last.res.model.value)

(***************************************************************************)
(* C7. The first argument, in declaration order, whose name equals an      *)
(* earlier argument's name makes query validation fail with                *)
(* DuplicateQueryArgument{query, argument}, whatever the expressions of    *)
(* the query hold: the check comes before any expression is validated.     *)
(***************************************************************************)
C7_DuplicateArgument ==
    QueryCalled =>
        LET q == last.input
        IN  /\ ~ArgsUnique(q) =>
                  last.res = DuplicateQueryArgument(q.name, q.args[Min(DuplicateArgs(q))])
            /\ ArgsUnique(q) => last.res.kind # "DuplicateQueryArgument"

\* Duplicate arguments in a query whose quantifier expression would fail.
C7_Witness ==
    /\ QueryCalled
    /\ last.res.kind = "DuplicateQueryArgument"
    /\ \E i \in DOMAIN QuantifierNodes(last.input) :
          NodeVerdict(last.before, last.input, QuantifierNodes(last.input)[i]).kind # "Ok"

(***************************************************************************)
(* What the specification says of a model.                                 *)
(***************************************************************************)
StoreNames == {"UUID", "String", "DateTime", "Encrypted"}
\* The positions of the fields that repeat an earlier field's name.
DuplicateFields(m) ==
    {j \in DOMAIN m.fields :
        \E i \in 1..(j - 1) : m.fields[i].name.value = m.fields[j].name.value}
\* The positions of the fields whose type name is not in the store.
UnknownTyped(m) ==
    {j \in DOMAIN m.fields : m.fields[j].type_.name.value \notin StoreNames}
StoreEntry(text) ==
    CASE text = "UUID" -> "UuidType"
      [] text = "String" -> "StringType"
      [] text = "DateTime" -> "DateTimeType"
      [] text = "Encrypted" -> "EncryptedType"
\* The validated form of a model whose fields all validate.
Validated(m) ==
    [name |-> m.name,
     fields |-> [i \in DOMAIN m.fields |->
        [name |-> m.fields[i].name,
         repr |-> StoreEntry(m.fields[i].type_.name.value),
         optional |-> m.fields[i].type_.optional,
         arg |-> m.fields[i].type_.arg]]]

(***************************************************************************)
(* C8. Model validation walks the fields in declaration order; when the    *)
(* walk comes to the first field whose name repeats an earlier field's it  *)
(* fails with DuplicateField{model, field}, whether or not that field's    *)
(* type is known.                                                          *)
(***************************************************************************)
C8_DuplicateField ==
    ModelCalled =>
        LET m == last.input
        IN  /\ DuplicateFields(m) # {} => last.res.kind # "Ok"
            /\ ( /\ DuplicateFields(m) # {}
                 /\ \A j \in UnknownTyped(m) : j >= Min(DuplicateFields(m)) ) =>
                  last.res = DuplicateField(m.name, m.fields[Min(DuplicateFields(m))].name)
            /\ DuplicateFields(m) = {} => last.res.kind # "DuplicateField"

\* The repeated field has a type that is not in the store.
C8_Witness ==
    /\ ModelCalled
    /\ last.res.kind = "DuplicateField"
    /\ Min(DuplicateFields(last.input)) \in UnknownTyped(last.input)

(***************************************************************************)
(* C9. A field whose type name is not a key of the TypeStore (UUID,        *)
(* String, DateTime, Encrypted, case-sensitive) makes model validation     *)
(* fail, with UnknownFieldType{model, field, type_name} when it is the     *)
(* first field the walk stops at; a model that validates has every field   *)
(* resolved to its store entry with optional and arg unchanged.            *)
(***************************************************************************)
C9_UnknownFieldType ==
    ModelCalled =>
        LET m == last.input
        IN  /\ UnknownTyped(m) # {} => last.res.kind # "Ok"
            /\ ( /\ UnknownTyped(m) # {}
                 /\ \A j \in DuplicateFields(m) : j > Min(UnknownTyped(m)) ) =>
                  LET f == m.fields[Min(UnknownTyped(m))]
                  IN  last.res = UnknownFieldType(m.name, f.name, f.type_.name)
            /\ UnknownTyped(m) = {} => last.res.kind # "UnknownFieldType"
            /\ last.res.kind = "Ok" =>
                  /\ RegistryHas(models, m.name.value)
                  /\ RegistryModel(models, m.name.value).fields = Validated(m).fields

\* A type name that differs from a store key only in case is unknown.
C9_Witness ==
    /\ ModelCalled
    /\ last.res.kind = "UnknownFieldType"
    /\ last.res.type_name.value = "uuid"

(***************************************************************************)
(* C10. model::validate writes the registry only on success: the registry  *)
(* then maps the model's name to the newly validated model, replacing an   *)
(* earlier entry of that name, and keeps every other entry; on             *)
(* DuplicateField or UnknownFieldType the registry is as it was.           *)
(***************************************************************************)
C10_RegistryWrite ==
    ModelCalled =>
        LET m == last.input
        IN  IF last.res.kind = "Ok"
            THEN /\ HashMap_keys(models) = HashMap_keys(last.before) \cup {m.name.value}
                 /\ RegistryModel(models, m.name.value) = Validated(m)
                 /\ \A t \in HashMap_keys(last.before) \ {m.name.value} :
                        RegistryModel(models, t) = RegistryModel(last.before, t)
                 /\ Cardinality(models) = Cardinality(HashMap_keys(models))
            ELSE /\ last.res.kind \in {"DuplicateField", "UnknownFieldType"}
                 /\ models = last.before

\* A successful validation replaces a different model of the same name.
C10_Witness ==
    /\ ModelCalled
    /\ last.res.kind = "Ok"
    /\ RegistryHas(last.before, last.input.name.value)
    /\ RegistryModel(last.before, last.input.name.value) # Validated(last.input)

\* A failed validation leaves a registry that holds models as it was.
C10_WitnessFailure ==
    /\ ModelCalled
    /\ last.res.kind # "Ok"
    /\ last.before # {}

(***************************************************************************)
(* validate_file: fail-fast.                                               *)
(***************************************************************************)
FirstError == last.op # "none" /\ last.res.kind # "Ok"

\* C11: validation is fail-fast.  Once model::validate or query::validate
\* has returned an error nothing more is validated (no later model, no query
\* of the file, no later query, and the registry is left as it is), queries
\* are validated only after every model of their file has passed, and the
\* error validate_database returns is that first error, unchanged.
C11_FailFast ==
    /\ [](FirstError => pc = "done" /\ result = last.res)
    /\ [](pc = "queries" => todo_models = {})
    /\ [][FirstError => UNCHANGED <<last, models, todo_models, todo_queries, result>>]_vars

\* A model of a file fails while a query of that file waits: the query is
\* never validated.
C11_Witness ==
    /\ pc = "done"
    /\ last.op = "model" /\ last.res.kind # "Ok"
    /\ todo_queries # {}
    /\ result = last.res

(***************************************************************************)
(* Identifier identity.                                                    *)
(***************************************************************************)
\* The registry holds the text under a key parsed at another position.
StoredElsewhere(reg, id) == \E e \in reg : e.k.value = id.value /\ e.k.span # id.span

\* C12: identifier identity is value-only.  A model registered under an
\* identifier parsed at one position is found by a lookup with an identifier
\* of equal text parsed at another position, and two argument or two field
\* identifiers of equal text at different positions are duplicates.
C12_IdentValueOnly ==
    /\ (QueryCalled /\ ArgsUnique(last.input)) =>
          LET q == last.input
              nodes == QuantifierNodes(q)
          IN  \A i \in DOMAIN nodes :
                  ( /\ nodes[i].tag = "Field"
                    /\ NodeTarget(q, nodes[i]).some
                    /\ ReachedIn(last.before, q, nodes, i)
                    /\ StoredElsewhere(last.before, NodeTarget(q, nodes[i]).val) ) =>
                  last.res.kind # "QueryUnknownModel"
    /\ QueryCalled =>
          LET q == last.input
          IN  \A i \in DOMAIN q.args, j \in DOMAIN q.args :
                  ( /\ i < j
                    /\ q.args[i].value = q.args[j].value
                    /\ q.args[i].span # q.args[j].span ) =>
                  last.res.kind = "DuplicateQueryArgument"
    /\ ModelCalled =>
          LET m == last.input
          IN  \A i \in DOMAIN m.fields, j \in DOMAIN m.fields :
                  ( /\ i < j
                    /\ m.fields[i].name.value = m.fields[j].name.value
                    /\ m.fields[i].name.span # m.fields[j].name.span ) =>
                  /\ last.res.kind \in {"DuplicateField", "UnknownFieldType"}
                  /\ UnknownTyped(m) = {} => last.res.kind = "DuplicateField"

\* A field qualified at one position resolves against a model registered
\* under a name parsed at another position.
C12_Witness ==
    /\ QueryCalled
    /\ last.res.kind = "Ok"
    /\ \E i \in DOMAIN QuantifierNodes(last.input) :
          LET n == QuantifierNodes(last.input)[i]
          IN  /\ n.tag = "Field"
              /\ n.model.some
              /\ StoredElsewhere(last.before, n.model.val)

(***************************************************************************)
(* config: what the specification says of the getters and of Env.          *)
(***************************************************************************)
EvalCalled == call.op = "eval"
\* The group the last getter was called on, and the raw value under its key.
CalledGroup == LookupGroup(config, call.path)
CalledValue == Group_get_raw(CalledGroup, call.key)
Registered(name) == name \in DOMAIN functions
\* The calls of Env among the handler calls of the last evaluation.
EnvCalls == {i \in DOMAIN call.calls : call.calls[i].handler = "EnvFunction"}

\* C13: on a live Config, Group::eval(key) returns ExpectedValue when the
\* key is absent, the raw value when the key holds a value that is not a
\* Function, and UnknownFunction{name} with no argument evaluated when it
\* holds a Function whose name is not registered.
C13_GroupEval ==
    (EvalCalled /\ call.getter = "eval" /\ call.alive) =>
        IF ~CalledValue.some
        THEN call.res = ExpectedValue(call.key, "value")
        ELSE IF CalledValue.val.tag # "Function"
        THEN call.res = OkValue(CalledValue.val)
        ELSE ~Registered(CalledValue.val.name.value) =>
                /\ call.res = UnknownFunction(CalledValue.val.name)
                /\ call.calls = <<>>

\* C14: while the Config returned by Config::from_directory is alive, the
\* back-reference of each of its groups, the top-level group included,
\* resolves to the session's Context, and no getter on an existing key ends
\* in the dead-reference panic.
C14_ContextOutlivesGroups ==
    (EvalCalled /\ call.alive /\ config.by = "from_directory" /\ CalledValue.some) =>
        /\ Weak_upgrade(CalledGroup.context, call.alive)
        /\ call.res # Panic

\* C15: no Function value is passed on unevaluated.  Every argument a
\* handler receives is not a Function, and a value an evaluation returns
\* with Ok is not a Function.
C15_NoFunctionPassedOn ==
    EvalCalled =>
        /\ \A i \in DOMAIN call.calls :
              \A j \in DOMAIN call.calls[i].args :
                  call.calls[i].args[j].tag # "Function"
        /\ call.res.kind = "Ok" => call.res.val.tag # "Function"

\* A handler returned a Function, a call was written as an argument, and
\* the evaluation ended Ok.
C15_Witness ==
    /\ EvalCalled
    /\ call.res.kind = "Ok"
    /\ \E i \in DOMAIN call.calls :
          call.calls[i].ret.kind = "Ok" /\ call.calls[i].ret.val.tag = "Function"
    /\ \E j \in DOMAIN CalledValue.val.args : CalledValue.val.args[j].tag = "Function"

\* C16: Env by the state of the environment.  The variable set: String of
\* its value, with or without a default.  Not present, with a default: the
\* default.  Not present without a default, or any other failure of the
\* lookup even with a default: EvaluationError with the lookup's message.
C16_EnvOutcome ==
    EvalCalled =>
        \A i \in EnvCalls :
            LET c == call.calls[i]
            IN  (Len(c.args) \in {1, 2} /\ c.args[1].tag = "String") =>
                LET v == env_var(env, c.args[1].s)
                IN  CASE v.kind = "Ok" -> c.ret = OkValue(VString(v.val))
                      [] v.kind = "NotPresent" /\ Len(c.args) = 2 ->
                            c.ret = OkValue(c.args[2])
                      [] OTHER -> c.ret = EvaluationError(DESCRIPTOR, v.kind)

\* The lookup fails for another reason than absence while a default is given.
C16_Witness ==
    /\ EvalCalled
    /\ \E i \in EnvCalls :
          LET c == call.calls[i]
          IN  /\ Len(c.args) = 2 /\ c.args[1].tag = "String"
              /\ env_var(env, c.args[1].s) = NotUnicode
              /\ c.ret.kind = "EvaluationError"

\* C17: Env checks its arguments before it reads the environment.  Zero or
\* more than two arguments: ArgumentIssue.  One or two arguments, the first
\* not a String: ArgumentTypeIssue.  The number of arguments is checked
\* before the type of the first.
C17_EnvArguments ==
    EvalCalled =>
        \A i \in EnvCalls :
            LET c == call.calls[i]
            IN  /\ Len(c.args) \notin {1, 2} =>
                      c.ret = ArgumentIssue(DESCRIPTOR, Len(c.args))
                /\ (Len(c.args) \in {1, 2} /\ c.args[1].tag # "String") =>
                      c.ret = ArgumentTypeIssue(DESCRIPTOR, "key", "string")
                /\ c.ret.kind \in {"ArgumentIssue", "ArgumentTypeIssue"} <=>
                      (Len(c.args) \notin {1, 2} \/ c.args[1].tag # "String")

\* Three arguments, the first of them not a String, in an environment
\* where the variable is set.
C17_Witness ==
    /\ EvalCalled
    /\ env["FOO"].kind = "Ok"
    /\ \E i \in EnvCalls :
          LET c == call.calls[i]
          IN  /\ Len(c.args) = 3 /\ c.args[1].tag # "String"
              /\ c.ret.kind = "ArgumentIssue"

\* C18: add_function with a registered name returns an error and leaves the
\* registry as it was; with a new name it adds that entry and no other.  A
\* default Context has Env, so another Env on it is an error.
C18_AddFunction ==
    /\ "Env" \in DOMAIN Context_default
    /\ call.op = "add_function" =>
          /\ IF call.name \in DOMAIN call.before
             THEN call.res.kind # "Ok" /\ functions = call.before
             ELSE /\ call.res = Ok
                  /\ DOMAIN functions = DOMAIN call.before \cup {call.name}
                  /\ functions[call.name] = call.func
                  /\ \A n \in DOMAIN call.before : functions[n] = call.before[n]
          /\ (call.before = Context_default /\ call.name = "Env") =>
                call.res.kind # "Ok"

\* A name is registered again with another handler.
C18_Witness ==
    /\ call.op = "add_function"
    /\ call.name \in DOMAIN call.before
    /\ call.before[call.name] # call.func
    /\ call.res.kind # "Ok"

(***************************************************************************)
(* What the specification says of a string literal and of a number         *)
(* literal, read off the source text.                                      *)
(***************************************************************************)
IsHex(c) == to_digit16(c) >= 0

\* The literal that opens at the first character, decoded escape by escape:
\* "ok" with the content and the index after the closing quote, or what
\* stops the decoding.
RECURSIVE Decoded(_, _, _)
Decoded(src, i, acc) ==
    IF i >= Len(src) THEN [kind |-> "unterminated"]
    ELSE IF src[i + 1] = src[1] THEN [kind |-> "ok", content |-> acc, index |-> i + 1]
    ELSE IF src[i + 1] # 92 THEN Decoded(src, i + 1, Append(acc, src[i + 1]))
    ELSE IF i + 1 >= Len(src) THEN [kind |-> "unterminated"]
    ELSE IF Escaped(src[i + 2]).some
         THEN Decoded(src, i + 2, Append(acc, Escaped(src[i + 2]).val))
    ELSE IF src[i + 2] # 117 THEN [kind |-> "unknown_escape"]
    ELSE IF ~(i + 6 <= Len(src) /\ \A k \in 3..6 : IsHex(src[i + k]))
         THEN [kind |-> "short_u"]
    ELSE LET code == radix16(SubSeq(src, i + 3, i + 6), 1, 0)
         IN  IF char_from_u32(code).some
             THEN Decoded(src, i + 6, Append(acc, code))
             ELSE [kind |-> "invalid_code_point"]

OpensLiteral(src) == Len(src) > 0 /\ src[1] \in {34, 39}

\* C19: a string literal is decoded escape by escape.  Each of \n \r \t \\
\* \' \" gives its one character and \uXXXX gives the one character of that
\* code point and nothing else; \u followed by fewer than 4 hex digits, or
\* by a code point that is no character, is a hard parse error.
C19_StringEscapes ==
    (parsed.op = "parse_string" /\ OpensLiteral(source)) =>
        LET d == Decoded(source, 1, <<>>)
        IN  /\ d.kind = "ok" => parsed.res = ParseOk(Some(d.content), d.index)
            /\ d.kind \in {"short_u", "invalid_code_point"} => parsed.res.kind = "Err"

\* The longest prefix of [0-9_]*, and its digits as a number.
MatchedLen(src) ==
    CHOOSE k \in 0..Len(src) :
        /\ \A i \in 1..k : is_ascii_digit(src[i]) \/ src[i] = 95
        /\ k < Len(src) => ~(is_ascii_digit(src[k + 1]) \/ src[k + 1] = 95)
DigitsOf(s) ==
    LET d == SelectSeq(s, is_ascii_digit) IN [i \in DOMAIN d |-> d[i] - 48]
StartsWithDigit(src) == Len(src) > 0 /\ is_ascii_digit(src[1])

\* C20: parse_int and parse_number accept [0-9][0-9_]* and return the
\* radix-10 value of all the matched digits, the first included, with the
\* underscores removed; a value that does not fit the integer type is a
\* parse error; a source that does not start with a digit gives None and
\* leaves the cursor where it was.
C20_NumberLiterals ==
    parsed.op \in {"parse_int", "parse_number"} =>
        IF StartsWithDigit(source)
        THEN LET m == MatchedLen(source)
                 value == strip_zeros(DigitsOf(SubSeq(source, 1, m)))
                 max == IF parsed.op = "parse_int" THEN I64_MAX ELSE U64_MAX
             IN  IF digits_leq(value, max)
                 THEN parsed.res = ParseOk(Some(value), m)
                 ELSE parsed.res.kind = "Err"
        ELSE parsed.res = ParseOk(None, 0)

(***************************************************************************)
(* C25. An explicit model qualifier takes precedence over the principal    *)
(* model: a Field(Some(m), f) node of a query whose single selector names  *)
(* another model is resolved against m.  When m is not registered the      *)
(* result is QueryUnknownModel naming m, when m lacks f it is              *)
(* QueryUnknownField naming m's model, and when m holds f the node passes, *)
(* whatever the principal model holds.                                     *)
(***************************************************************************)
Qualified(q, n) ==
    /\ n.tag = "Field"
    /\ n.model.some
    /\ HasPrincipal(q)
    /\ q.statement.selectors[1].name.value # n.model.val.value

C25_QualifierFirst ==
    (QueryCalled /\ ArgsUnique(last.input)) =>
        LET q == last.input
            reg == last.before
            nodes == QuantifierNodes(q)
        IN  \A i \in DOMAIN nodes :
                (Qualified(q, nodes[i]) /\ ReachedIn(reg, q, nodes, i)) =>
                LET m == nodes[i].model.val
                    f == nodes[i].field
                    p == q.statement.selectors[1].name
                IN  IF ~RegistryHas(reg, m.value)
                    THEN last.res = QueryUnknownModel(q.name, m, f)
                    ELSE IF f.value \notin ModelFieldTexts(RegistryModel(reg, m.value))
                    THEN last.res =
                            QueryUnknownField(q.name, RegistryModel(reg, m.value).name, f)
                    ELSE (i = Len(nodes)) => last.res = Ok

\* The qualifier names an unregistered model while the principal model is
\* registered and holds the field: the reference fails on the qualifier.
C25_Witness ==
    /\ QueryCalled
    /\ \E i \in DOMAIN QuantifierNodes(last.input) :
        LET n == QuantifierNodes(last.input)[i]
        IN  /\ Qualified(last.input, n)
            /\ ~RegistryHas(last.before, n.model.val.value)
            /\ RegistryHas(last.before, last.input.statement.selectors[1].name.value)
            /\ n.field.value \in ModelFieldTexts(
                   RegistryModel(last.before, last.input.statement.selectors[1].name.value))
            /\ last.res = QueryUnknownModel(last.input.name, n.model.val, n.field)

(***************************************************************************)
(* C26. The model registry is append-only: a key of the registry stays a   *)
(* key in every later state; the registry changes only in a step of a      *)
(* successful model::validate; the steps of query validation and of        *)
(* migration leave it as it is.                                            *)
(***************************************************************************)
C26_AppendOnly ==
    /\ [][HashMap_keys(models) \subseteq HashMap_keys(models')]_vars
    /\ [][models' # models =>
            pc = "models" /\ last'.op = "model" /\ last'.res.kind = "Ok"]_vars
    /\ [][(pc \in {"queries", "done", "migrated"}) => UNCHANGED models]_vars

\* Queries were validated and the models migrated over a registry of two
\* models, the last validated call being a failure-free query.
C26_Witness ==
    /\ pc = "migrated"
    /\ Cardinality(HashMap_keys(models)) = 2
    /\ last.op = "query"

(***************************************************************************)
(* C30. The outcome of validate_file depends only on the file and on the   *)
(* registry before the call: whatever the order in which the models and    *)
(* the queries of the file are visited, the result and the registry left   *)
(* behind are the same.                                                    *)
(***************************************************************************)
C30_OrderIndependent ==
    (pc \in {"models", "queries"}) =>
        Cardinality(validate_file_outcomes(todo_models, todo_queries, models)) = 1

(***************************************************************************)
(* What the specification says of QQL expressions, stated on the words of  *)
(* the source: the source is cut into operands and operators, and the tree *)
(* is built by splitting at the loosest operator, independently of the     *)
(* parser's operators.                                                     *)
(***************************************************************************)
IsWordStart(c) == is_ascii_alphabetic(c) \/ c = 95
WordEnd(src, i) == take_ident_chars(src, i)
NumberEnd(src, i) == take_digits(src, i)

\* The operator written at position i, the longest one first.
OperatorAt(src, i) ==
    LET two == IF i + 2 <= Len(src) THEN SubSeq(src, i + 1, i + 2) ELSE <<>>
        one == <<src[i + 1]>>
    IN  CASE two = <<61, 61>> -> [op |-> "Eq", len |-> 2]
          [] two = <<33, 61>> -> [op |-> "Ne", len |-> 2]
          [] two = <<62, 61>> -> [op |-> "Ge", len |-> 2]
          [] two = <<60, 61>> -> [op |-> "Le", len |-> 2]
          [] OTHER ->
             CASE one = <<62>> -> [op |-> "Gt", len |-> 1]
               [] one = <<60>> -> [op |-> "Lt", len |-> 1]
               [] one = <<43>> -> [op |-> "Add", len |-> 1]
               [] one = <<45>> -> [op |-> "Sub", len |-> 1]
               [] one = <<42>> -> [op |-> "Mul", len |-> 1]
               [] one = <<47>> -> [op |-> "Div", len |-> 1]
               [] one = <<37>> -> [op |-> "Rem", len |-> 1]
               [] OTHER -> [op |-> "none", len |-> 1]

\* A word: the operators or and and in any case, the operator not, or a
\* field reference, qualified when a dot and a word follow.
WordToken(src, i) ==
    LET e == WordEnd(src, i)
        w == SubSeq(src, i + 1, e)
    IN  IF to_ascii_lowercase(w) = <<111, 114>> THEN [kind |-> "op", op |-> "Or", end |-> e]
        ELSE IF to_ascii_lowercase(w) = <<97, 110, 100>>
        THEN [kind |-> "op", op |-> "And", end |-> e]
        ELSE IF w = <<110, 111, 116>> THEN [kind |-> "not", end |-> e]
        ELSE IF e + 1 < Len(src) /\ src[e + 1] = 46 /\ IsWordStart(src[e + 2])
        THEN [kind |-> "operand",
              expr |-> [tag |-> "Field", model |-> Some(w),
                        field |-> SubSeq(src, e + 2, WordEnd(src, e + 1))],
              end |-> WordEnd(src, e + 1)]
        ELSE [kind |-> "operand",
              expr |-> [tag |-> "Field", model |-> None, field |-> w], end |-> e]

TokenAt(src, i) ==
    IF IsWordStart(src[i + 1]) THEN WordToken(src, i)
    ELSE IF is_ascii_digit(src[i + 1])
    THEN [kind |-> "operand",
          expr |-> [tag |-> "Number",
                    n |-> strip_zeros(DigitsOf(SubSeq(src, i + 1, NumberEnd(src, i))))],
          end |-> NumberEnd(src, i)]
    ELSE IF src[i + 1] = 35 /\ i + 1 < Len(src) /\ IsWordStart(src[i + 2])
    THEN [kind |-> "operand",
          expr |-> [tag |-> "Interp", var |-> SubSeq(src, i + 2, WordEnd(src, i + 1))],
          end |-> WordEnd(src, i + 1)]
    ELSE LET o == OperatorAt(src, i)
         IN  [kind |-> IF o.op = "none" THEN "other" ELSE "op", op |-> o.op,
              end |-> i + o.len]

RECURSIVE Tokens(_, _)
Tokens(src, i) ==
    IF i >= Len(src) THEN <<>>
    ELSE IF src[i + 1] = 32 THEN Tokens(src, i + 1)
    ELSE <<TokenAt(src, i)>> \o Tokens(src, TokenAt(src, i).end)

\* The tokens as operands, each under its unary operator if it has one, and
\* the binary operators between them; bad when the tokens are not written
\* operand (operator operand)*.
IsPrefix(t) == t.kind = "not" \/ (t.kind = "op" /\ t.op = "Sub")
RECURSIVE Units(_, _)
Units(ts, operand) ==
    IF ts = <<>> THEN IF operand THEN <<[u |-> "bad"]>> ELSE <<>>
    ELSE IF ~operand
    THEN IF ts[1].kind = "op"
         THEN <<[u |-> "op", op |-> ts[1].op]>> \o Units(Tail(ts), TRUE)
         ELSE <<[u |-> "bad"]>>
    ELSE IF ts[1].kind = "operand"
    THEN <<[u |-> "operand", expr |-> ts[1].expr]>> \o Units(Tail(ts), FALSE)
    ELSE IF IsPrefix(ts[1]) /\ Len(ts) > 1 /\ ts[2].kind = "operand"
    THEN <<[u |-> "operand",
            expr |-> [tag |-> "Unary",
                      op |-> IF ts[1].kind = "not" THEN "Not" ELSE "Negative",
                      r |-> ts[2].expr]]>> \o Units(Tail(Tail(ts)), FALSE)
    ELSE <<[u |-> "bad"]>>
WellFormed(us) == us # <<>> /\ \A i \in DOMAIN us : us[i].u # "bad"

\* How tight an operator binds: the claim's order, loosest first.
Binding(op) ==
    CASE op = "Or" -> 1 [] op = "And" -> 2
      [] op \in {"Eq", "Ne"} -> 3
      [] op \in {"Lt", "Le", "Gt", "Ge"} -> 4
      [] op \in {"Add", "Sub"} -> 5
      [] op \in {"Mul", "Div", "Rem"} -> 6

\* The tree of operand (operator operand)*: split at the last of the
\* loosest operators.
RECURSIVE Tree(_)
Tree(us) ==
    IF Len(us) = 1 THEN us[1].expr
    ELSE LET ops == {i \in DOMAIN us : i % 2 = 0}
             loosest == Min({Binding(us[i].op) : i \in ops})
             at == CHOOSE i \in ops :
                       /\ Binding(us[i].op) = loosest
                       /\ \A j \in ops : Binding(us[j].op) = loosest => j <= i
         IN  [tag |-> "Binary", l |-> Tree(SubSeq(us, 1, at - 1)), op |-> us[at].op,
              r |-> Tree(SubSeq(us, at + 1, Len(us)))]

\* An expression without the positions of its identifiers.
RECURSIVE Shape(_)
Shape(e) ==
    CASE e.tag = "Binary" -> [tag |-> "Binary", l |-> Shape(e.l), op |-> e.op, r |-> Shape(e.r)]
      [] e.tag = "Unary" -> [tag |-> "Unary", op |-> e.op, r |-> Shape(e.r)]
      [] e.tag = "Number" -> e
      [] e.tag = "Interp" -> [tag |-> "Interp", var |-> e.var.value]
      [] e.tag = "Field" ->
            [tag |-> "Field",
             model |-> IF e.model.some THEN Some(e.model.val.value) ELSE None,
             field |-> e.field.value]

ExpressionParsed == parsed.op = "try_parse_qql_expression"
SourceUnits == Units(Tokens(source, 0), TRUE)
RECURSIVE HasNumber(_)
HasNumber(e) ==
    CASE e.tag = "Binary" -> HasNumber(e.l) \/ HasNumber(e.r)
      [] e.tag = "Unary" -> HasNumber(e.r)
      [] OTHER -> e.tag = "Number"

(***************************************************************************)
(* C21. An expression written operand (operator operand)* parses to the    *)
(* tree in which * / % bind tighter than + -, these tighter than           *)
(* < <= > >=, then == !=, then and, then or, operators of one level        *)
(* grouping to the left, and not and - apply to the operand they precede:  *)
(* 1 + 2 * 3 parses as Add(Number(1), Mul(Number(2), Number(3))).          *)
(***************************************************************************)
C21_Precedence ==
    (ExpressionParsed /\ WellFormed(SourceUnits)) =>
        /\ parsed.res.kind = "Ok"
        /\ parsed.res.val.some
        /\ Shape(parsed.res.val.val) = Tree(SourceUnits)

\* The same for expressions that hold no number literal.
C21_PrecedenceWithoutNumbers ==
    (ExpressionParsed /\ WellFormed(SourceUnits) /\ ~HasNumber(Tree(SourceUnits))) =>
        /\ parsed.res.kind = "Ok"
        /\ parsed.res.val.some
        /\ Shape(parsed.res.val.val) = Tree(SourceUnits)

(***************************************************************************)
(* parse_qql_quantifier                                                    *)
(***************************************************************************)
QuantifierParsed == parsed.op = "parse_qql_quantifier"
\* The word the source starts with, empty when it starts with no word.
RECURSIVE Blanks(_)
Blanks(src) == IF src # <<>> /\ src[1] = 32 THEN 1 + Blanks(Tail(src)) ELSE 0
FirstWord == IF Blanks(source) < Len(source) /\ IsWordStart(source[Blanks(source) + 1])
             THEN SubSeq(source, Blanks(source) + 1, WordEnd(source, Blanks(source)))
             ELSE <<>>
FirstWordEnd == Blanks(source) + Len(FirstWord)
StartsWithOne == to_ascii_lowercase(FirstWord) = <<111, 110, 101>>
StartsWithAll == to_ascii_lowercase(FirstWord) = <<97, 108, 108>>
KeywordQuantifier ==
    /\ StartsWithOne => parsed.res = ParseOk([tag |-> "One"], FirstWordEnd)
    /\ StartsWithAll => parsed.res = ParseOk([tag |-> "All"], FirstWordEnd)
ExprQuantifierLast ==
    (parsed.res.kind = "Ok" /\ parsed.res.val.tag = "Expr") =>
        ~StartsWithOne /\ ~StartsWithAll /\ ~StartsWithDigit(source)

(***************************************************************************)
(* C22. The quantifier alternatives are tried in the order one, all,       *)
(* number, expression: the words one and all, in any case, give One and    *)
(* All; a source that starts with a digit gives Number(n), n the value of  *)
(* the digits, and is never parsed as an expression; an expression         *)
(* quantifier is produced only when none of the first three matches.       *)
(***************************************************************************)
C22_QuantifierOrder ==
    QuantifierParsed =>
        /\ KeywordQuantifier
        /\ StartsWithDigit(source) =>
              parsed.res =
                  ParseOk([tag |-> "Number",
                           n |-> strip_zeros(DigitsOf(SubSeq(source, 1, MatchedLen(source))))],
                          MatchedLen(source))
        /\ ExprQuantifierLast

\* The same without the value of the number.
C22_QuantifierOrderWithoutNumbers ==
    QuantifierParsed =>
        /\ KeywordQuantifier
        /\ StartsWithDigit(source) =>
              ~(parsed.res.kind = "Ok" /\ parsed.res.val.tag # "Number")
        /\ ExprQuantifierLast


(***************************************************************************)
(* C27. A soft expression parse never hides a malformed expression:        *)
(* try_parse_qql_expression returns Ok(None) only when no expression       *)
(* starts at the cursor, and then the cursor has not moved; once a token   *)
(* of an expression has been consumed the result is never Ok(None).        *)
(***************************************************************************)
C27_SoftParseOnlyAtStart ==
    (ExpressionParsed /\ parsed.res.kind = "Ok" /\ ~parsed.res.val.some) =>
        parsed.res.index = 0


(***************************************************************************)
(* C28. Backtracking restores the cursor: atomic commits the position the  *)
(* closure reached when the closure returns Ok and leaves the cursor where *)
(* it was when the closure returns Err; take_keyword and                   *)
(* take_keyword_insensitive advance past the identifier only when it is    *)
(* the requested keyword, and otherwise return false with the cursor       *)
(* unchanged.                                                              *)
(***************************************************************************)
AtomicRestores ==
    parsed.op = "atomic" =>
        IF parsed.closure.kind = "Ok"
        THEN parsed.res = parsed.closure
        ELSE /\ parsed.res.kind = "Err"
             /\ parsed.res.message = parsed.closure.message
             /\ parsed.res.index = 0
KeywordTaken(hit) ==
    parsed.res = [ok |-> hit, index |-> IF hit THEN FirstWordEnd ELSE 0]
C28_AtomicErrReached ==
    parsed.op = "atomic" /\ parsed.closure.kind = "Err" /\ parsed.closure.index > 0
C28_AtomicOkReached ==
    parsed.op = "atomic" /\ parsed.closure.kind = "Ok" /\ parsed.res.index > 0
C28_InsensitiveReached ==
    /\ parsed.op = "take_keyword_insensitive"
    /\ parsed.res.ok /\ FirstWord # parsed.keyword
C28_InsensitiveMissReached ==
    /\ parsed.op = "take_keyword_insensitive"
    /\ ~parsed.res.ok /\ FirstWord # <<>>
C28_AfterBlanksReached ==
    /\ parsed.op = "take_keyword_insensitive"
    /\ Blanks(source) > 0 /\ (parsed.res.ok \/ FirstWord = <<>>)


(***************************************************************************)
(* parse_separated_terminated(')', ',', field name) in a selector          *)
(***************************************************************************)
\* The selector source is a name of one letter and an opening parenthesis,
\* so that the list starts at index 2.
ListParsed ==
    /\ parsed.op = "parse_qql_selector"
    /\ Len(source) >= 2 /\ IsWordStart(source[1]) /\ source[2] = 40
\* The index of the first ')' of the source, Len(source) when there is none.
RECURSIVE FirstClose(_, _)
FirstClose(src, i) ==
    IF i >= Len(src) \/ src[i + 1] = 41 THEN i ELSE FirstClose(src, i + 1)
\* body is written item (',' item)* with or without a last ','; afterItem
\* tells that an item has just been read.
RECURSIVE Alternates(_, _)
Alternates(body, afterItem) ==
    IF body = <<>> THEN TRUE
    ELSE IF afterItem THEN body[1] = 44 /\ Alternates(Tail(body), FALSE)
    ELSE /\ IsWordStart(body[1])
         /\ Alternates(SubSeq(body, WordEnd(body, 0) + 1, Len(body)), TRUE)
\* The words written in body, in the order they are written.
RECURSIVE WordsOf(_)
WordsOf(body) ==
    IF body = <<>> THEN <<>>
    ELSE IF IsWordStart(body[1])
    THEN <<SubSeq(body, 1, WordEnd(body, 0))>>
             \o WordsOf(SubSeq(body, WordEnd(body, 0) + 1, Len(body)))
    ELSE WordsOf(Tail(body))
ItemTexts(items) == [i \in DOMAIN items |-> items[i].value]
ListBody(to) == SubSeq(source, 3, to)

(***************************************************************************)
(* C29. parse_separated_terminated returns the items in source order and   *)
(* never consumes the terminal: zero items when the terminal is next; an   *)
(* item directly followed by the terminal and a separator directly         *)
(* followed by the terminal are accepted; the first item error is          *)
(* propagated unchanged.                                                   *)
(***************************************************************************)
C29_SeparatedTerminated ==
    ListParsed =>
        /\ parsed.list.kind = "Ok" =>
              /\ ItemTexts(parsed.list.val) = WordsOf(ListBody(parsed.list.index))
              /\ \A i \in DOMAIN parsed.list.val :
                    /\ parsed.list.val[i].value =
                           Slice(source, parsed.list.val[i].span,
                                 parsed.list.val[i].span + Len(parsed.list.val[i].value))
                    /\ i > 1 => parsed.list.val[i - 1].span < parsed.list.val[i].span
              /\ parsed.list.index <= FirstClose(source, 2)
        /\ Alternates(ListBody(FirstClose(source, 2)), FALSE) =>
              /\ parsed.list.kind = "Ok"
              /\ parsed.list.index = FirstClose(source, 2)
        /\ parsed.list.kind = "Err" =>
              /\ parsed.list = parse_item("selector_field", source, parsed.list.index)
              /\ Alternates(ListBody(parsed.list.index), FALSE)
              /\ parsed.list.index > 2 => source[parsed.list.index] = 44

\* A separator directly followed by the terminal: the items before it are
\* returned and the terminal is the next character.
C29_Witness ==
    /\ ListParsed
    /\ parsed.list.kind = "Ok" /\ Len(parsed.list.val) = 1
    /\ parsed.list.index < Len(source) /\ source[parsed.list.index + 1] = 41
    /\ source[parsed.list.index] = 44
\* Further cases of C29 that are reached.
C29_ZeroItemsReached ==
    ListParsed /\ parsed.list = ParseOk(<<>>, 2) /\ Len(source) > 2 /\ source[3] = 41
C29_NoSeparatorReached ==
    /\ ListParsed /\ parsed.list.kind = "Ok" /\ Len(parsed.list.val) = 2
    /\ parsed.list.index < Len(source) /\ source[parsed.list.index + 1] = 41
    /\ source[parsed.list.index] # 44
C29_ItemErrorReached ==
    ListParsed /\ parsed.list.kind = "Err" /\ parsed.list.index > 2


(***************************************************************************)
(* Groups read from a source                                               *)
(***************************************************************************)
\* A group without the positions of its keys: key text and value.
RECURSIVE Plain(_)
PlainValue(v) ==
    IF v.tag = "Group" THEN [tag |-> "Group", inner |-> Plain(v.g.inner)] ELSE v
Plain(map) == {[k |-> e.k.value, v |-> PlainValue(e.v)] : e \in map}
\* The entries as written: the keys, and for a key its last occurrence.
KeysWritten(es) == {Chars(es[i].key) : i \in DOMAIN es}
LastOccurrence(es, key) ==
    CHOOSE i \in DOMAIN es :
        /\ Chars(es[i].key) = key
        /\ \A j \in DOMAIN es : Chars(es[j].key) = key => j <= i
LastWins(es) ==
    {[k |-> key, v |-> es[LastOccurrence(es, key)].value.reads] : key \in KeysWritten(es)}
\* The group the last call returned, when it returned one.
GroupParsed ==
    IF parsed.op = "parse_group" /\ parsed.res.kind = "Ok" /\ parsed.res.val.some
    THEN Some(parsed.res.val.val)
    ELSE IF parsed.op = "from_directory" /\ parsed.res.kind = "Ok"
    THEN Some(parsed.res.val)
    ELSE None
Written(t) ==
    /\ t.src = source
    /\ parsed.op = (IF t.braced THEN "parse_group" ELSE "from_directory")

(***************************************************************************)
(* C23. Duplicate keys in a config group, nested or top-level, are not an  *)
(* error: after parsing, the group holds one entry per distinct key and    *)
(* its value is the value of the last occurrence of that key.              *)
(***************************************************************************)
C23_LastKeyWins ==
    (parsed.op \in {"parse_group", "from_directory"}) =>
        \A t \in EntryTable :
            Written(t) =>
                /\ GroupParsed.some
                /\ Cardinality(GroupParsed.val.inner) = Cardinality(KeysWritten(t.entries))
                /\ Plain(GroupParsed.val.inner) = LastWins(t.entries)

\* A key written three times, with a nested group that repeats a key too.
C23_Witness ==
    \E t \in EntryTable :
        /\ Written(t) /\ t.braced
        /\ Len(t.entries) = 3 /\ Cardinality(KeysWritten(t.entries)) = 1
        /\ t.entries[3].value.reads.tag = "Group"
        /\ t.entries[1].value.reads # t.entries[3].value.reads
        /\ GroupParsed.some
C23_TopLevelReached ==
    \E t \in EntryTable :
        /\ Written(t) /\ ~t.braced
        /\ Len(t.entries) = 3 /\ Cardinality(KeysWritten(t.entries)) = 2
        /\ GroupParsed.some

C24_ErrorReached ==
    parsed.op = "from_str" /\ parsed.first.some /\ parsed.res.kind = "Err"
C24_ConfigReached ==
    /\ parsed.op = "from_directory" /\ parsed.first.some
    /\ parsed.res.kind = "Ok" /\ parsed.res.val.inner # {}

====
